---- MODULE Spec2Model ----
(***************************************************************************)
(* openapi-mcp: the operation-to-tool translation engine and the call      *)
(* dispatcher of package openapi2mcp.                                       *)
(*                                                                         *)
(* A string is a sequence of symbols.  The symbols "[", "]" and "_" are    *)
(* the characters the name escaper inspects; every other symbol stands for *)
(* a run of characters the escaper copies unchanged.                       *)
(***************************************************************************)
EXTENDS Integers, Sequences, FiniteSets, TLC

(***************************************************************************)
(* Bounds of the model.                                                    *)
(***************************************************************************)
\* longest name given to escapeParameterName on its own
MaxNameLen == 3
\* longest parameter list given to buildParameterNameMapping
MaxParams == 2
\* most operations handed to RegisterOpenAPITools
MaxOps == 2
\* most tags of one operation
MaxTags == 3
\* most security-requirement alternatives of one operation
MaxAlternatives == 2
\* most HTTP requests the server handles at the same time
MaxRequests == 2
\* bits of the model's int64: the conversion int64(float64) overflows at
\* 2^(Int64Bits-1) as the program's does at 2^63
Int64Bits == 5

VARIABLES
    \* ---- name escaper (schema.go) ----
    name,       \* the name handed to escapeParameterName
    escaped,    \* escapeParameterName(name), from step "escaped" on
    twice,      \* escapeParameterName(escaped), from step "twice" on
    params,     \* the operation's parameter list (openapi3.Parameters)
    mapping,    \* buildParameterNameMapping(params), from step "mapped" on
    lookup,     \* the last unescapeParameterName call: its key and its result
    nstep,      \* position of the name-escaper run
    \* ---- tool registrar (register.go) ----
    doc,        \* the OpenAPI document: Info, ExternalDocs, Servers
    opts,       \* *ToolGenOptions, possibly nil
    baseURLEnv, \* the environment variable OPENAPI_BASE_URL
    rstep,      \* position of RegisterOpenAPITools
    baseURLs,   \* the base-URL candidates bound to every tool
    curOp,      \* the operation of the last loop iteration
    opCount,    \* operations iterated so far
    toolNames,  \* the name list RegisterOpenAPITools returns
    serverTools, \* the tools added to the server
    \* ---- request dispatcher (tool.go) ----
    tool,       \* what toolHandler closes over: operation, schema, base URLs, confirmation flag
    env,        \* the process environment: API_KEY, BEARER_TOKEN, BASIC_AUTH, API_KEY_HEADER
    pc,         \* position of the invocation: "idle", "sent" (in the transport), "done"
    callArgs,       \* the argument object of the invocation
    sentReq,    \* the request handed to the transport by the invocation
    callResp,       \* what the transport returned
    result,     \* what the invocation returned
    sends,      \* how many times the invocation called the transport
    \* ---- HTTP server (server.go) ----
    sessions,   \* per HTTP request: its headers, its authContext, its position
    origEnv,    \* the environment before the first HTTP request began
    \* ---- schema assembler (schema.go) ----
    asmParams,  \* the parameter list handed to BuildInputSchema
    requestBody, \* the request body handed to BuildInputSchema
    inputSchema, \* BuildInputSchema(asmParams, requestBody), from step "assembled" on
    astep,      \* position of the assembler run
    \* ---- the build ----
    arch,       \* GOARCH of the binary: decides what an out-of-range int64(float64) gives
    \* ---- example values (schema.go, register.go) ----
    declared,   \* the schema a parameter declares (*openapi3.SchemaRef), possibly nil
    property,   \* extractProperty(declared), from step "extracted" on
    exampleValue, \* the example value generated for the property, from step "done" on
    estep,      \* position of the example run
    \* ---- description generation (register.go) ----
    descriptions \* the texts generateAIFriendlyDescription returned, call after call

nameVars == <<name, escaped, twice, params, mapping, lookup, nstep>>

regVars == <<doc, opts, baseURLEnv, rstep, baseURLs, curOp, opCount, toolNames, serverTools>>

callVars == <<pc, callArgs, sentReq, callResp, result, sends>>

dispVars == <<tool, env, pc, callArgs, sentReq, callResp, result, sends>>

srvVars == <<sessions, origEnv>>

asmVars == <<asmParams, requestBody, inputSchema, astep>>

exVars == <<declared, property, exampleValue, estep>>

descVars == <<descriptions>>

buildVars == <<arch>>

vars == <<nameVars, regVars, dispVars, srvVars, asmVars, buildVars, exVars, descVars>>

(***************************************************************************)
(* PART I.  The functions of the program.                                  *)
(***************************************************************************)

(***************************************************************************)
(* Strings.                                                                *)
(***************************************************************************)
\* strings.Contains(s, c) for a one-character c
Contains(s, c) == \E i \in 1..Len(s) : s[i] = c

\* strings.ReplaceAll(s, old, new) for one-character old and new
ReplaceAll(s, old, new) == [i \in 1..Len(s) |-> IF s[i] = old THEN new ELSE s[i]]

\* strings.HasSuffix(s, c) for a one-character c
HasSuffix(s, c) == Len(s) > 0 /\ s[Len(s)] = c

HasBracket(s) == Contains(s, "[") \/ Contains(s, "]")

(***************************************************************************)
(* Name escaper.                                                           *)
(***************************************************************************)
\* a plausible slip: the trailing marker is appended to every name
escapeAlwaysMarks(n) ==
    LET e == ReplaceAll(ReplaceAll(n, "[", "_"), "]", "_")
    IN  IF ~HasSuffix(e, "_") THEN Append(e, "_") ELSE e

\* a plausible slip: neither the early return nor the suffix test is made
escapeMarksUnconditionally(n) ==
    Append(ReplaceAll(ReplaceAll(n, "[", "_"), "]", "_"), "_")

escapeParameterName(n) ==
    IF ~Contains(n, "[") /\ ~Contains(n, "]")
    THEN n
    ELSE LET e == ReplaceAll(ReplaceAll(n, "[", "_"), "]", "_")
         IN  IF ~HasSuffix(e, "_") THEN Append(e, "_") ELSE e

unescapeParameterName(esc, originalNames) ==
    IF esc \in DOMAIN originalNames THEN originalNames[esc] ELSE esc

\* mapping[k] = v on a Go map
MapSet(m, k, v) == [x \in DOMAIN m \cup {k} |-> IF x = k THEN v ELSE m[x]]

EmptyMap == [x \in {} |-> x]

RECURSIVE MappingFrom(_, _)
MappingFrom(ps, m) ==
    IF ps = << >>
    THEN m
    ELSE LET p == Head(ps)
         IN  IF ~p.HasValue
             THEN MappingFrom(Tail(ps), m)
             ELSE LET e == escapeParameterName(p.Name)
                  IN  IF e # p.Name
                      THEN MappingFrom(Tail(ps), MapSet(m, e, p.Name))
                      ELSE MappingFrom(Tail(ps), m)

\* a plausible slip: the table is keyed by the declared name
RECURSIVE MappingKeyedByOriginal(_, _)
MappingKeyedByOriginal(ps, m) ==
    IF ps = << >>
    THEN m
    ELSE LET p == Head(ps)
         IN  IF ~p.HasValue
             THEN MappingKeyedByOriginal(Tail(ps), m)
             ELSE LET e == escapeParameterName(p.Name)
                  IN  IF e # p.Name
                      THEN MappingKeyedByOriginal(Tail(ps), MapSet(m, p.Name, e))
                      ELSE MappingKeyedByOriginal(Tail(ps), m)

buildMappingKeyedByOriginal(ps) == MappingKeyedByOriginal(ps, EmptyMap)

buildParameterNameMapping(ps) == MappingFrom(ps, EmptyMap)


(***************************************************************************)
(* Tool registrar: RegisterOpenAPITools.                                    *)
(***************************************************************************)
\* slices.Contains
SliceContains(list, x) == \E i \in 1..Len(list) : list[i] = x

\* the set of the elements of a list
Elems(list) == {list[i] : i \in 1..Len(list)}

\* the closure filterByTag: the loop over op.Tags returns in its first iteration
filterByTag(o, op) ==
    IF o.IsNil \/ Len(o.TagFilter) = 0
    THEN TRUE
    ELSE IF Len(op.Tags) > 0
         THEN SliceContains(o.TagFilter, op.Tags[1])
         ELSE FALSE

\* the candidates RegisterOpenAPITools collects before its loop
RECURSIVE NonEmptyURLs(_)
NonEmptyURLs(servers) ==
    IF servers = << >>
    THEN << >>
    ELSE IF Head(servers) # ""
         THEN <<Head(servers)>> \o NonEmptyURLs(Tail(servers))
         ELSE NonEmptyURLs(Tail(servers))

BaseURLCandidates(envURL, d) ==
    IF envURL # ""
    THEN <<envURL>>
    ELSE IF Len(d.Servers) > 0
         THEN NonEmptyURLs(d.Servers)
         ELSE <<"http://localhost:8080">>

DryRun(o) == ~o.IsNil /\ o.DryRun

OpTool(i) == [kind |-> "operation", id |-> i]
ExternalDocsTool == [kind |-> "externalDocs", id |-> 0]
InfoTool == [kind |-> "info", id |-> 0]

\* a plausible slip: the info tool is added whatever the document and options
WithInfoAlways(d, o) == TRUE

\* register.go:905: doc.Info != nil && (opts == nil || !opts.DryRun)
WithInfo(d, o) == d.HasInfo /\ ~DryRun(o)

\* register.go:875 (the URL of the external documentation is part of HasExternalDocs)
WithExternalDocs(d, o) == d.HasExternalDocs /\ ~DryRun(o)

(***************************************************************************)
(* Schema assembler: BuildInputSchema, as far as the dispatcher reads it.  *)
(***************************************************************************)
RequestBodyKey == <<"requestBody">>

\* a plausible slip: the required list names the parameter as declared
RECURSIVE SchemaOfParamsDeclaredRequired(_, _)
SchemaOfParamsDeclaredRequired(ps, sch) ==
    IF ps = << >>
    THEN sch
    ELSE LET p == Head(ps)
         IN  IF ~p.HasValue \/ ~p.HasSchema
             THEN SchemaOfParamsDeclaredRequired(Tail(ps), sch)
             ELSE SchemaOfParamsDeclaredRequired(Tail(ps),
                     [Properties |-> MapSet(sch.Properties, escapeParameterName(p.Name),
                                            [Type |-> p.Type]),
                      Required |-> IF p.Required
                                   THEN Append(sch.Required, p.Name)
                                   ELSE sch.Required])

\* the loop over params: properties under the escaped name, required names
RECURSIVE SchemaOfParams(_, _)
SchemaOfParams(ps, sch) ==
    IF ps = << >>
    THEN sch
    ELSE LET p == Head(ps)
         IN  IF ~p.HasValue \/ ~p.HasSchema
             THEN SchemaOfParams(Tail(ps), sch)
             ELSE LET escapedName == escapeParameterName(p.Name)
                  IN  SchemaOfParams(Tail(ps),
                         [Properties |-> MapSet(sch.Properties, escapedName, [Type |-> p.Type]),
                          Required |-> IF p.Required
                                       THEN Append(sch.Required, escapedName)
                                       ELSE sch.Required])

\* a plausible slip: the required list is emitted also when it is empty
BuildInputSchemaAlwaysRequired(ps, body) ==
    LET withParams == SchemaOfParams(ps, [Properties |-> EmptyMap, Required |-> << >>])
        withBody ==
            IF body.present
            THEN [Properties |-> MapSet(withParams.Properties, <<"requestBody">>,
                                        [Type |-> "object"]),
                  Required |-> IF body.required
                               THEN Append(withParams.Required, <<"requestBody">>)
                               ELSE withParams.Required]
            ELSE withParams
    IN  [Type |-> "object",
         Properties |-> withBody.Properties,
         HasRequired |-> TRUE,
         Required |-> withBody.Required]

\* body is "none" or the JSON request body: [required |-> BOOLEAN]
BuildInputSchema(ps, body) ==
    LET withParams == SchemaOfParams(ps, [Properties |-> EmptyMap, Required |-> << >>])
        withBody ==
            IF body.present
            THEN [Properties |-> MapSet(withParams.Properties, RequestBodyKey, [Type |-> "object"]),
                  Required |-> IF body.required
                               THEN Append(withParams.Required, RequestBodyKey)
                               ELSE withParams.Required]
            ELSE withParams
    IN  [Type |-> "object",
         Properties |-> withBody.Properties,
         HasRequired |-> Len(withBody.Required) > 0,
         Required |-> withBody.Required]

(***************************************************************************)
(* Argument values.  JSON decoding gives strings, float64 numbers (n.d: an *)
(* integer part and one decimal digit), booleans and objects.              *)
(***************************************************************************)
StrVal(str)  == [t |-> "string", s |-> str, n |-> 0, d |-> 0]
NumVal(n, d) == [t |-> "number", s |-> << >>, n |-> n, d |-> d]
BoolVal(b)   == [t |-> "boolean", s |-> << >>, n |-> IF b THEN 1 ELSE 0, d |-> 0]
ObjVal       == [t |-> "object", s |-> <<"{}">>, n |-> 0, d |-> 0]
NoVal        == [t |-> "none", s |-> << >>, n |-> 0, d |-> 0]

\* fmt.Sprintf("%v", val).  A float64 is printed with %g: a value of seven
\* digits or more, so every value beyond the int64 range, comes out in
\* exponent notation.
DefaultFormat(val) ==
    CASE val.t = "string"  -> val.s
      [] val.t = "number"  -> IF val.n > 2^(Int64Bits - 1) - 1
                              THEN <<ToString(val.n), "e+00">>
                              ELSE IF val.d = 0
                                   THEN <<ToString(val.n)>>
                                   ELSE <<ToString(val.n), ".", ToString(val.d)>>
      [] val.t = "boolean" -> IF val.n = 1 THEN <<"true">> ELSE <<"false">>
      [] OTHER             -> val.s

MaxInt64 == 2^(Int64Bits - 1) - 1
MinInt64 == -(2^(Int64Bits - 1))

\* int64(v) of a float64 with integer part n: the fraction is dropped.  The
\* result for a value outside the int64 range is implementation-dependent:
\* amd64 gives the smallest int64, arm64 saturates.
Int64(n) ==
    IF n >= MinInt64 /\ n <= MaxInt64
    THEN n
    ELSE IF arch = "amd64" THEN MinInt64
         ELSE IF n > 0 THEN MaxInt64 ELSE MinInt64

\* a plausible slip: an integer-typed parameter is formatted like any other
formatParameterValueDefault(val, isInteger) == DefaultFormat(val)

\* a float64 is cut to an int64 when the parameter is integer-typed
formatParameterValue(val, isInteger) ==
    IF isInteger
    THEN IF val.t = "number" THEN <<ToString(Int64(val.n))>> ELSE DefaultFormat(val)
    ELSE DefaultFormat(val)

\* the escaped name first, then the declared name
getParameterValue(args, paramName, paramNameMapping) ==
    LET escapedName == escapeParameterName(paramName)
    IN  IF escapedName \in DOMAIN args
        THEN [ok |-> TRUE, val |-> args[escapedName]]
        ELSE IF paramName \in DOMAIN args
             THEN [ok |-> TRUE, val |-> args[paramName]]
             ELSE [ok |-> FALSE, val |-> NoVal]

(***************************************************************************)
(* The JSON-Schema validator (gojsonschema.Validate), by its contract:     *)
(* a schema with an unknown type does not load; a document is invalid when *)
(* a required property is missing or a present property has the wrong type.*)
(***************************************************************************)
JSONSchemaTypes == {"string", "number", "integer", "boolean", "object", "array", "null"}

TypeMatches(type, val) ==
    CASE type = "string"  -> val.t = "string"
      [] type = "number"  -> val.t = "number"
      [] type = "integer" -> val.t = "number" /\ val.d = 0
      [] type = "boolean" -> val.t = "boolean"
      [] type = "object"  -> val.t = "object"
      [] OTHER            -> FALSE

\* a plausible slip: required properties are not checked
ValidateTypesOnly(schema, args) ==
    IF \E k \in DOMAIN schema.Properties : schema.Properties[k].Type \notin JSONSchemaTypes
    THEN "error"
    ELSE IF \E k \in DOMAIN args \cap DOMAIN schema.Properties :
                ~TypeMatches(schema.Properties[k].Type, args[k])
         THEN "invalid"
         ELSE "valid"

Validate(schema, args) ==
    IF \E k \in DOMAIN schema.Properties : schema.Properties[k].Type \notin JSONSchemaTypes
    THEN "error"
    ELSE IF \/ \E i \in 1..Len(schema.Required) : schema.Required[i] \notin DOMAIN args
            \/ \E k \in DOMAIN args \cap DOMAIN schema.Properties :
                  ~TypeMatches(schema.Properties[k].Type, args[k])
         THEN "invalid"
         ELSE "valid"

(***************************************************************************)
(* Results of toolHandler: a CallToolResult or a Go error.                  *)
(*   kind     which return statement of the handler produced it            *)
(*   isError  CallToolResult.IsError                                       *)
(*   goErr    the handler returned (nil, err)                              *)
(*   retry    the text holds a "Try again with: call ..." suggestion       *)
(*   status   the HTTP status the text reports, 0 when none                *)
(*   guidance which suggestion was embedded                                *)
(*   body     the response body as embedded in the text                    *)
(*   text     the text itself, for the results built from a response       *)
(*   example  the argument set of the retry suggestion                       *)
(***************************************************************************)
Result(kind, isError, goErr, retry, status, guidance, body) ==
    [kind |-> kind, isError |-> isError, goErr |-> goErr, retry |-> retry,
     status |-> status, guidance |-> guidance, body |-> body, text |-> << >>,
     example |-> EmptyMap]

\* the text of the result's content, as a sequence of symbols
WithText(r, text) == [r EXCEPT !.text = text]

\* tool.go:106-130: the argument set of "Try again with: call ...", one
\* value per property of the schema, chosen by the property's type (the
\* schemas of the model have no array property)
RetryExampleArgs(properties) ==
    [k \in DOMAIN properties |->
        LET typeStr == properties[k].Type
        IN  CASE typeStr = "string" -> StrVal(<<"example">>)
              [] typeStr = "number" -> NumVal(123, 45)
              [] typeStr = "integer" -> NumVal(123, 0)
              [] typeStr = "boolean" -> BoolVal(TRUE)
              [] typeStr = "object" -> ObjVal
              [] OTHER -> NoVal]

\* the result with the retry suggestion's argument set
WithExample(r, exampleArgs) == [r EXCEPT !.example = exampleArgs]

NoResult == Result("none", FALSE, FALSE, FALSE, 0, "", << >>)

\* tool.go:36-46: the schema or the arguments could not be loaded
LoaderErrorResult == Result("loader_error", TRUE, FALSE, FALSE, 0, "", << >>)

\* a plausible slip: the failure is reported as an ordinary result
ValidationFailureNotFlagged == Result("validation_error", FALSE, FALSE, TRUE, 0, "", << >>)

\* tool.go:48-143: messages per violation, then the retry suggestion
ValidationFailureResult == Result("validation_error", TRUE, FALSE, TRUE, 0, "", << >>)

(***************************************************************************)
(* Request construction.                                                   *)
(***************************************************************************)
\* the request: URL parts, headers, body.  byFallback is not part of the
\* request: it records which headers the legacy fallback wrote.
NoRequest ==
    [built |-> FALSE, Method |-> "", BaseURL |-> << >>, Path |-> << >>, Query |-> EmptyMap,
     Headers |-> EmptyMap, Body |-> << >>, byFallback |-> {}]

HeaderSet(req, h, v) == [req EXCEPT !.Headers = MapSet(@, h, v)]

HeaderGet(req, h) == IF h \in DOMAIN req.Headers THEN req.Headers[h] ELSE << >>

\* strings.ToUpper on a method name
ToUpper(m) ==
    CASE m = "get" -> "GET" [] m = "post" -> "POST" [] m = "put" -> "PUT"
      [] m = "delete" -> "DELETE" [] m = "patch" -> "PATCH" [] m = "head" -> "HEAD"
      [] OTHER -> m

IsIntegerParam(p) == p.HasSchema /\ p.Type = "integer"

\* a path is a sequence of segments; <<"{", name, "}">> is a placeholder
Placeholder(n) == <<"{">> \o n \o <<"}">>

\* strings.ReplaceAll(path, "{"+p.Name+"}", value) on the segments
ReplaceSegment(path, seg, value) ==
    [i \in 1..Len(path) |-> IF path[i] = seg THEN value ELSE path[i]]

RECURSIVE BuildPath(_, _, _)
BuildPath(path, ps, args) ==
    IF ps = << >>
    THEN path
    ELSE LET p == Head(ps)
             got == getParameterValue(args, p.Name, EmptyMap)
         IN  IF p.HasValue /\ p.In = "path" /\ got.ok
             THEN BuildPath(ReplaceSegment(path, Placeholder(p.Name),
                                           formatParameterValue(got.val, IsIntegerParam(p))),
                            Tail(ps), args)
             ELSE BuildPath(path, Tail(ps), args)

RECURSIVE BuildQuery(_, _, _)
BuildQuery(query, ps, args) ==
    IF ps = << >>
    THEN query
    ELSE LET p == Head(ps)
             got == getParameterValue(args, p.Name, EmptyMap)
         IN  IF p.HasValue /\ p.In = "query" /\ got.ok
             THEN BuildQuery(MapSet(query, p.Name,
                                    formatParameterValue(got.val, IsIntegerParam(p))),
                             Tail(ps), args)
             ELSE BuildQuery(query, Tail(ps), args)

\* url.JoinPath fails on a base URL that does not parse
MalformedURL == <<"::not-a-url">>
JoinPathFails(baseURL) == baseURL = MalformedURL

H_Accept        == <<"Accept">>
H_ContentType   == <<"Content-Type">>
H_Authorization == <<"Authorization">>
H_Cookie        == <<"Cookie">>

\* tool.go:145-226: path, query, body, Content-Type, Accept
NewRequest(op, args, baseURL) ==
    LET body == IF op.Body.present /\ RequestBodyKey \in DOMAIN args
                THEN args[RequestBodyKey].s
                ELSE << >>
        r0 == [built |-> TRUE,
               Method |-> ToUpper(op.Method),
               BaseURL |-> baseURL,
               Path |-> BuildPath(op.Path, op.Parameters, args),
               Query |-> BuildQuery(EmptyMap, op.Parameters, args),
               Headers |-> EmptyMap,
               Body |-> body,
               byFallback |-> {}]
        r1 == IF Len(body) > 0 THEN HeaderSet(r0, H_ContentType, <<"application/json">>) ELSE r0
    IN  HeaderSet(r1, H_Accept, <<"application/json, application/vnd.api+json">>)

(***************************************************************************)
(* Authentication.  The process environment e holds API_KEY, BEARER_TOKEN, *)
(* BASIC_AUTH and API_KEY_HEADER; an unset variable reads as "".           *)
(***************************************************************************)
\* base64.StdEncoding.EncodeToString
Base64(str) == <<"base64(">> \o str \o <<")">>

BearerValue(token) == <<"Bearer ">> \o token
BasicValue(cred)   == <<"Basic ">> \o Base64(cred)

Unsatisfied(req) == [ok |-> FALSE, req |-> req]
Satisfied(req)   == [ok |-> TRUE, req |-> req]

\* a plausible slip: the apiKey header scheme writes the Authorization header
fulfillSecurityKeyAsAuthorization(secName, httpReq, components, e) ==
    IF secName \notin DOMAIN components
    THEN Unsatisfied(httpReq)
    ELSE LET secScheme == components[secName]
         IN  IF secScheme.Type = "apiKey" /\ secScheme.In = "header" /\ e.API_KEY # << >>
             THEN Satisfied(HeaderSet(httpReq, <<"Authorization">>, e.API_KEY))
             ELSE Unsatisfied(httpReq)

fulfillSecurity(secName, httpReq, components, e) ==
    IF secName \notin DOMAIN components
    THEN Unsatisfied(httpReq)
    ELSE LET secScheme == components[secName]
         IN  CASE secScheme.Type = "http" ->
                    IF secScheme.Scheme = "bearer"
                    THEN IF e.BEARER_TOKEN # << >>
                         THEN Satisfied(HeaderSet(httpReq, H_Authorization,
                                                  BearerValue(e.BEARER_TOKEN)))
                         ELSE Unsatisfied(httpReq)
                    ELSE IF secScheme.Scheme = "basic"
                         THEN IF e.BASIC_AUTH # << >>
                              THEN Satisfied(HeaderSet(httpReq, H_Authorization,
                                                       BasicValue(e.BASIC_AUTH)))
                              ELSE Unsatisfied(httpReq)
                         ELSE Unsatisfied(httpReq)
               [] secScheme.Type = "apiKey" ->
                    IF secScheme.In = "header" /\ secScheme.Name # << >>
                    THEN IF e.API_KEY # << >>
                         THEN Satisfied(HeaderSet(httpReq, secScheme.Name, e.API_KEY))
                         ELSE Unsatisfied(httpReq)
                    ELSE IF secScheme.In = "query" /\ secScheme.Name # << >>
                         THEN IF e.API_KEY # << >>
                              THEN Satisfied([httpReq EXCEPT
                                       !.Query = MapSet(@, secScheme.Name, e.API_KEY)])
                              ELSE Unsatisfied(httpReq)
                         ELSE IF secScheme.In = "cookie" /\ secScheme.Name # << >>
                              THEN IF e.API_KEY # << >>
                                   THEN LET cookie == HeaderGet(httpReq, H_Cookie)
                                            sep == IF cookie # << >> THEN <<"; ">> ELSE << >>
                                        IN  Satisfied(HeaderSet(httpReq, H_Cookie,
                                               cookie \o sep \o secScheme.Name
                                                      \o <<"=">> \o e.API_KEY))
                                   ELSE Unsatisfied(httpReq)
                              ELSE Unsatisfied(httpReq)
               [] secScheme.Type = "oauth2" ->
                    IF e.BEARER_TOKEN # << >>
                    THEN Satisfied(HeaderSet(httpReq, H_Authorization,
                                             BearerValue(e.BEARER_TOKEN)))
                    ELSE Unsatisfied(httpReq)
               [] OTHER -> Unsatisfied(httpReq)

\* tool.go:230-236: securitySatisfied is assigned by every scheme tried, in
\* the order the two loops visit them
RECURSIVE TrySchemes(_, _, _, _, _)
TrySchemes(order, httpReq, components, e, securitySatisfied) ==
    IF order = << >>
    THEN [ok |-> securitySatisfied, req |-> httpReq]
    ELSE LET r == fulfillSecurity(Head(order), httpReq, components, e)
         IN  TrySchemes(Tail(order), r.req, components, e, r.ok)

FallbackSet(req, h, v) ==
    [HeaderSet(req, h, v) EXCEPT !.byFallback = @ \cup {h}]

\* a plausible slip: basic credentials are preferred to the bearer token
LegacyFallbackBasicFirst(httpReq, e) ==
    LET r1 == IF e.API_KEY # << >> /\ e.API_KEY_HEADER # << >>
              THEN FallbackSet(httpReq, e.API_KEY_HEADER, e.API_KEY)
              ELSE httpReq
    IN  IF e.BASIC_AUTH # << >>
        THEN FallbackSet(r1, H_Authorization, BasicValue(e.BASIC_AUTH))
        ELSE IF e.BEARER_TOKEN # << >>
             THEN FallbackSet(r1, H_Authorization, BearerValue(e.BEARER_TOKEN))
             ELSE r1

\* tool.go:239-250
LegacyFallback(httpReq, e) ==
    LET r1 == IF e.API_KEY # << >> /\ e.API_KEY_HEADER # << >>
              THEN FallbackSet(httpReq, e.API_KEY_HEADER, e.API_KEY)
              ELSE httpReq
    IN  IF e.BEARER_TOKEN # << >>
        THEN FallbackSet(r1, H_Authorization, BearerValue(e.BEARER_TOKEN))
        ELSE IF e.BASIC_AUTH # << >>
             THEN FallbackSet(r1, H_Authorization, BasicValue(e.BASIC_AUTH))
             ELSE r1

Authenticate(httpReq, order, components, e) ==
    LET tried == TrySchemes(order, httpReq, components, e, FALSE)
    IN  IF ~tried.ok THEN LegacyFallback(tried.req, e) ELSE tried.req

\* tool.go:252-269
RECURSIVE AddHeaderParams(_, _, _)
AddHeaderParams(httpReq, ps, args) ==
    IF ps = << >>
    THEN httpReq
    ELSE LET p == Head(ps)
             got == getParameterValue(args, p.Name, EmptyMap)
         IN  IF p.HasValue /\ p.In = "header" /\ got.ok
             THEN AddHeaderParams(HeaderSet(httpReq, p.Name,
                                     formatParameterValue(got.val, IsIntegerParam(p))),
                                  Tail(ps), args)
             ELSE AddHeaderParams(httpReq, Tail(ps), args)

\* tool.go:271-289
RECURSIVE CookiePairs(_, _)
CookiePairs(ps, args) ==
    IF ps = << >>
    THEN << >>
    ELSE LET p == Head(ps)
             got == getParameterValue(args, p.Name, EmptyMap)
         IN  IF p.HasValue /\ p.In = "cookie" /\ got.ok
             THEN <<p.Name \o <<"=">> \o formatParameterValue(got.val, IsIntegerParam(p))>>
                      \o CookiePairs(Tail(ps), args)
             ELSE CookiePairs(Tail(ps), args)

\* strings.Join(parts, sep)
RECURSIVE Join(_, _)
Join(parts, sep) ==
    IF parts = << >>
    THEN << >>
    ELSE IF Len(parts) = 1
         THEN Head(parts)
         ELSE Head(parts) \o sep \o Join(Tail(parts), sep)

\* tool.go:291-293
AddCookieParams(httpReq, ps, args) ==
    LET cookiePairs == CookiePairs(ps, args)
    IN  IF Len(cookiePairs) > 0
        THEN HeaderSet(httpReq, H_Cookie, Join(cookiePairs, <<"; ">>))
        ELSE httpReq

\* tool.go:145-293: the request as handed to the transport
PrepareRequest(op, args, baseURL, order, components, e) ==
    AddCookieParams(
        AddHeaderParams(
            Authenticate(NewRequest(op, args, baseURL), order, components, e),
            op.Parameters, args),
        op.Parameters, args)

(***************************************************************************)
(* Response classification.                                                *)
(***************************************************************************)
\* strings.HasPrefix(contentType, ...): the first symbol of a content type
\* is its media type, what follows are its parameters
IsJSON(contentType) ==
    Len(contentType) > 0 /\ contentType[1] \in {"application/json", "application/vnd.api+json"}
IsText(contentType) == Len(contentType) > 0 /\ contentType[1] = "text/"
IsBinary(contentType) == ~IsJSON(contentType) /\ ~IsText(contentType)

Is2xx(status) == status >= 200 /\ status < 300

IsMutating(method) == method \in {"PUT", "POST", "DELETE"}

K_stream    == <<"stream">>
K_confirmed == <<"__confirmed">>

\* tool.go:324-333
Guidance(status) ==
    IF status = 401 \/ status = 403 THEN "auth"
    ELSE IF status = 404 THEN "not_found"
    ELSE IF status = 400 THEN "bad_request"
    ELSE IF status >= 500 THEN "server"
    ELSE "generic"

\* a plausible slip: the marker is looked for before the stream branch, and
\* must be true
RespondGateFirst(op, confirmDangerousActions, args, resp) ==
    IF ~Is2xx(resp.status)
    THEN Result("http_error", TRUE, FALSE, FALSE, resp.status, Guidance(resp.status), resp.body)
    ELSE IF confirmDangerousActions /\ IsMutating(ToUpper(op.Method))
            /\ ~(K_confirmed \in DOMAIN args /\ args[K_confirmed] = BoolVal(TRUE))
         THEN Result("confirmation", FALSE, FALSE, FALSE, 0, "", << >>)
         ELSE Result("envelope", FALSE, FALSE, FALSE, resp.status, "", resp.body)

\* a plausible slip: the marker is looked for before the status of the
\* response is
RespondGateBeforeStatus(op, confirmDangerousActions, args, resp) ==
    IF confirmDangerousActions /\ IsMutating(ToUpper(op.Method))
       /\ K_confirmed \notin DOMAIN args
    THEN Result("confirmation", FALSE, FALSE, FALSE, 0, "", << >>)
    ELSE RespondGateFirst(op, confirmDangerousActions, args, resp)

(***************************************************************************)
(* Error guidance (register.go): what each generator writes of the         *)
(* operation, the arguments and the response body.                         *)
(***************************************************************************)
\* the "SERVER ERROR DETAILS" block all four generators share
ServerErrorDetails(responseBody) ==
    IF responseBody # << >>
    THEN <<"SERVER ERROR DETAILS:">> \o responseBody
    ELSE << >>

\* register.go:505-523: the path parameters and args[param] for each
RECURSIVE PathParameterLines(_, _)
PathParameterLines(ps, args) ==
    IF ps = << >>
    THEN << >>
    ELSE LET p == Head(ps)
         IN  IF p.HasValue /\ p.In = "path"
             THEN <<"* ">> \o p.Name \o <<": ">>
                      \o (IF p.Name \in DOMAIN args
                          THEN DefaultFormat(args[p.Name])
                          ELSE <<"NOT_PROVIDED">>)
                      \o PathParameterLines(Tail(ps), args)
             ELSE PathParameterLines(Tail(ps), args)

generateAI400ErrorResponse(op, args, responseBody) ==
    <<"BAD REQUEST (400)", "OPERATION: ", op.OperationID>>
        \o ServerErrorDetails(responseBody)

generateAI401403ErrorResponse(op, args, responseBody, statusCode) ==
    <<IF statusCode = 401 THEN "AUTHENTICATION REQUIRED (401)"
                          ELSE "AUTHORIZATION FAILED (403)",
      "OPERATION: ", op.OperationID>>
        \o ServerErrorDetails(responseBody)

generateAI404ErrorResponse(op, args, responseBody) ==
    <<"RESOURCE NOT FOUND (404)", "OPERATION: ", op.OperationID>>
        \o PathParameterLines(op.Parameters, args)
        \o ServerErrorDetails(responseBody)

generateAI5xxErrorResponse(op, args, responseBody, statusCode) ==
    <<"SERVER ERROR", "OPERATION: ", op.OperationID>>
        \o ServerErrorDetails(responseBody)

GenericSuggestion ==
    <<"Check the input parameters, authentication, and consult the tool schema.">>

\* a plausible slip: every failure gets the generic suggestion
SuggestionAlwaysGeneric(op, args, resp) == GenericSuggestion

\* tool.go:323-333
Suggestion(op, args, resp) ==
    IF resp.status = 401 \/ resp.status = 403
    THEN generateAI401403ErrorResponse(op, args, resp.body, resp.status)
    ELSE IF resp.status = 404
         THEN generateAI404ErrorResponse(op, args, resp.body)
         ELSE IF resp.status = 400
              THEN generateAI400ErrorResponse(op, args, resp.body)
              ELSE IF resp.status >= 500
                   THEN generateAI5xxErrorResponse(op, args, resp.body, resp.status)
                   ELSE GenericSuggestion

\* strings.Trim(str, `"`) on the symbols
RECURSIVE TrimQuotes(_)
TrimQuotes(str) ==
    IF str = << >> THEN str
    ELSE IF Head(str) = "\"" THEN TrimQuotes(Tail(str))
    ELSE IF str[Len(str)] = "\"" THEN TrimQuotes(SubSeq(str, 1, Len(str) - 1))
    ELSE str

\* parts[1] of strings.Split(cd, "filename="): what lies between the first
\* "filename=" and the next
RECURSIVE UpToFilename(_)
UpToFilename(str) ==
    IF str = << >> \/ Head(str) = "filename=" THEN << >>
    ELSE <<Head(str)>> \o UpToFilename(Tail(str))

RECURSIVE AfterFilename(_)
AfterFilename(str) ==
    IF Head(str) = "filename=" THEN UpToFilename(Tail(str)) ELSE AfterFilename(Tail(str))

\* a plausible slip: the header is never consulted
FileNameFixed(cd) == <<"file">>

\* tool.go:337-342 and 391-396
FileName(cd) ==
    IF Contains(cd, "filename=") THEN TrimQuotes(AfterFilename(cd)) ELSE <<"file">>

\* tool.go:343-360 and 397-409: the JSON object of a binary response
FileObject(op, resp) ==
    <<"mime_type: ">> \o resp.contentType
        \o <<"file_base64: ">> \o Base64(resp.body)
        \o <<"file_name: ">> \o FileName(resp.disposition)
        \o <<"operation.id: ", op.OperationID>>

\* tool.go:312-452: the result for a response the transport returned
Respond(op, confirmDangerousActions, args, resp) ==
    IF ~Is2xx(resp.status)
    THEN IF IsBinary(resp.contentType)
         THEN WithText(Result("binary_error", TRUE, FALSE, FALSE, resp.status,
                              Guidance(resp.status), Base64(resp.body)),
                       <<"error.code: http_error", "http_status: ", ToString(resp.status),
                         "suggestion: ">> \o Suggestion(op, args, resp)
                           \o FileObject(op, resp))
         ELSE WithText(Result("http_error", TRUE, FALSE, FALSE, resp.status,
                              Guidance(resp.status), resp.body),
                       <<"HTTP ", op.Method, "Error: ", ToString(resp.status)>>
                           \o (IF Len(resp.body) > 0
                               THEN <<"Details: ">> \o resp.body ELSE << >>)
                           \o <<"Suggestion: ">> \o Suggestion(op, args, resp)
                           \o <<"Operation: ", op.OperationID>>)
    ELSE IF IsBinary(resp.contentType)
         THEN WithText(Result("binary", FALSE, FALSE, FALSE, resp.status, "",
                              Base64(resp.body)),
                       <<"http_status: ", ToString(resp.status)>> \o FileObject(op, resp))
         ELSE LET respText == <<"HTTP ", op.Method, "Status: ", ToString(resp.status),
                                "Response:">> \o resp.body
              IN  IF K_stream \in DOMAIN args /\ args[K_stream] = BoolVal(TRUE)
                  THEN WithText(Result("envelope", FALSE, FALSE, FALSE, resp.status, "",
                                       resp.body), respText)
                  ELSE IF confirmDangerousActions /\ IsMutating(ToUpper(op.Method))
                          /\ K_confirmed \notin DOMAIN args
                       THEN WithText(Result("confirmation", FALSE, FALSE, FALSE, 0, "",
                                            << >>),
                                     <<"CONFIRMATION REQUIRED", "Action: ", op.OperationID>>)
                       ELSE WithText(Result("envelope", FALSE, FALSE, FALSE, resp.status,
                                            "", resp.body), respText)

\* tool.go:185-188, 217-220: the request could not be constructed
RequestErrorResult == Result("request_error", FALSE, TRUE, FALSE, 0, "", << >>)

\* a plausible slip: the transport's error is wrapped into an error result
TransportErrorAsResult == Result("transport_error", TRUE, FALSE, FALSE, 0, "", << >>)

\* tool.go:300-303: the transport returned an error
TransportErrorResult == Result("transport_error", FALSE, TRUE, FALSE, 0, "", << >>)

(***************************************************************************)
(* Per-request credentials (server.go).  A header of the incoming HTTP     *)
(* request is a map from header name to value, as the request built by     *)
(* the dispatcher is.                                                      *)
(***************************************************************************)
H_XAPIKey == <<"X-API-Key">>
H_ApiKey  == <<"Api-Key">>

\* r.Header.Get(h)
HeaderOf(header, h) == IF h \in DOMAIN header THEN header[h] ELSE << >>

\* len(v) > len(prefix) && v[:len(prefix)] == prefix: the scheme prefix is
\* the first symbol of an Authorization value
HasSchemePrefix(v, prefix) == Len(v) > 1 /\ v[1] = prefix

\* server.go:20-22 and 40-45: the authContext remembers the environment
\* authContextFunc found
authContext(e) ==
    [origAPIKey |-> e.API_KEY, origBearerToken |-> e.BEARER_TOKEN,
     origBasicAuth |-> e.BASIC_AUTH]

\* a plausible slip: only the API-key headers are honoured
authContextFuncKeyOnly(e, header) ==
    IF HeaderOf(header, H_XAPIKey) # << >>
    THEN [e EXCEPT !.API_KEY = HeaderOf(header, H_XAPIKey)]
    ELSE IF HeaderOf(header, H_ApiKey) # << >>
         THEN [e EXCEPT !.API_KEY = HeaderOf(header, H_ApiKey)]
         ELSE e

\* server.go:25-37: the environment after authContextFunc's os.Setenv calls
authContextFunc(e, header) ==
    LET e1 == IF HeaderOf(header, H_XAPIKey) # << >>
              THEN [e EXCEPT !.API_KEY = HeaderOf(header, H_XAPIKey)]
              ELSE IF HeaderOf(header, H_ApiKey) # << >>
                   THEN [e EXCEPT !.API_KEY = HeaderOf(header, H_ApiKey)]
                   ELSE e
        bearerToken == HeaderOf(header, H_Authorization)
    IN  IF bearerToken # << >>
        THEN IF HasSchemePrefix(bearerToken, "Bearer ")
             THEN [e1 EXCEPT !.BEARER_TOKEN = Tail(bearerToken)]
             ELSE IF HasSchemePrefix(bearerToken, "Basic ")
                  THEN [e1 EXCEPT !.BASIC_AUTH = Tail(bearerToken)]
                  ELSE e1
        ELSE e1

\* server.go:68-84: an unset variable reads as the empty string
restoreEnv(c, e) ==
    [e EXCEPT !.API_KEY = c.origAPIKey,
              !.BEARER_TOKEN = c.origBearerToken,
              !.BASIC_AUTH = c.origBasicAuth]

(***************************************************************************)
(* Example values: extractProperty (schema.go) turns the declared schema   *)
(* into the property of the input schema, the schema is marshalled to      *)
(* JSON, and generateExampleValue (register.go) reads the unmarshalled     *)
(* property object.                                                        *)
(***************************************************************************)
NilProperty == [IsNil |-> TRUE, Type |-> "", Format |-> "", Enum |-> << >>, Examples |-> << >>]

\* schema.go:62-145: type, format, enum, and the example as a one-element
\* Examples list
extractProperty(s) ==
    IF s.IsNil
    THEN NilProperty
    ELSE [IsNil |-> FALSE,
          Type |-> s.Type,
          Format |-> s.Format,
          Enum |-> s.Enum,
          Examples |-> IF s.HasExample THEN <<s.Example>> ELSE << >>]

\* json.Marshal and json.Unmarshal of a property: every field is omitempty
\* and stands under its JSON name
PropertyObject(p) ==
    (IF p.Type # "" THEN "type" :> p.Type ELSE EmptyMap)
        @@ (IF p.Format # "" THEN "format" :> p.Format ELSE EmptyMap)
        @@ (IF p.Enum # << >> THEN "enum" :> p.Enum ELSE EmptyMap)
        @@ (IF p.Examples # << >> THEN "examples" :> p.Examples ELSE EmptyMap)

\* register.go:351-400
generateExampleValue(prop) ==
    LET typeStr == IF "type" \in DOMAIN prop THEN prop["type"] ELSE ""
    IN  IF "enum" \in DOMAIN prop /\ Len(prop["enum"]) > 0
        THEN prop["enum"][1]
        ELSE IF "example" \in DOMAIN prop
             THEN prop["example"]
             ELSE CASE typeStr = "string" ->
                          IF "format" \in DOMAIN prop
                          THEN CASE prop["format"] = "email" -> StrVal(<<"user@example.com">>)
                                 [] prop["format"] = "uuid" ->
                                        StrVal(<<"123e4567-e89b-12d3-a456-426614174000">>)
                                 [] OTHER -> StrVal(<<"example_string">>)
                          ELSE StrVal(<<"example_string">>)
                    [] typeStr = "number" -> NumVal(123, 45)
                    [] typeStr = "integer" -> NumVal(123, 0)
                    [] typeStr = "boolean" -> BoolVal(TRUE)
                    [] typeStr = "object" -> ObjVal
                    [] OTHER -> NoVal

\* register.go:163-180: the example arguments are generated for the
\* properties the schema holds; a parameter without schema has none
ExampleOfProperty(p) ==
    IF p.IsNil THEN NoVal ELSE generateExampleValue(PropertyObject(p))

(***************************************************************************)
(* Description generation (register.go).  A range over a Go map visits the *)
(* keys in an order the runtime chooses anew for every loop: the order is  *)
(* an input of the generator, one per loop.                                *)
(***************************************************************************)
\* what json.Unmarshal gives generateExampleValue for a property of the
\* assembled schema
SchemaPropertyObject(p) == IF p.Type # "" THEN "type" :> p.Type ELSE EmptyMap

\* register.go:267-295: the optional properties, one line each, in the
\* order the loop visits them
RECURSIVE OptionalLines(_, _, _)
OptionalLines(order, properties, requiredParams) ==
    IF order = << >>
    THEN << >>
    ELSE LET paramName == Head(order)
         IN  IF SliceContains(requiredParams, paramName)
             THEN OptionalLines(Tail(order), properties, requiredParams)
             ELSE <<"  - ">> \o paramName \o <<" (", properties[paramName].Type, ")">>
                      \o OptionalLines(Tail(order), properties, requiredParams)

\* register.go:241-264: the required properties, in the order of the
\* required list
RECURSIVE RequiredLines(_, _)
RequiredLines(requiredParams, properties) ==
    IF requiredParams = << >>
    THEN << >>
    ELSE LET reqStr == Head(requiredParams)
         IN  (IF reqStr \in DOMAIN properties
              THEN <<"  - ">> \o reqStr \o <<" (", properties[reqStr].Type, ")">>
              ELSE << >>)
                 \o RequiredLines(Tail(requiredParams), properties)

\* register.go:311-315: the example values of the required properties
RECURSIVE RequiredExamples(_, _, _)
RequiredExamples(requiredParams, properties, exampleArgs) ==
    IF requiredParams = << >>
    THEN exampleArgs
    ELSE LET reqStr == Head(requiredParams)
         IN  RequiredExamples(Tail(requiredParams), properties,
                IF reqStr \in DOMAIN properties
                THEN MapSet(exampleArgs, reqStr,
                            generateExampleValue(SchemaPropertyObject(properties[reqStr])))
                ELSE exampleArgs)

\* register.go:317-328: at most two further properties, as the loop meets
\* them, while the example has fewer than three arguments
RECURSIVE OptionalExamples(_, _, _, _)
OptionalExamples(order, properties, exampleArgs, count) ==
    IF order = << >>
    THEN exampleArgs
    ELSE LET paramName == Head(order)
         IN  IF paramName \notin DOMAIN exampleArgs /\ count < 2
                /\ Cardinality(DOMAIN exampleArgs) < 3
             THEN OptionalExamples(Tail(order), properties,
                      MapSet(exampleArgs, paramName,
                             generateExampleValue(SchemaPropertyObject(properties[paramName]))),
                      count + 1)
             ELSE OptionalExamples(Tail(order), properties, exampleArgs, count)

\* register.go:304-332; json.Marshal writes a map with its keys sorted, so
\* the EXAMPLE line is a function of the map
ExampleArgs(schema, order) ==
    OptionalExamples(order, schema.Properties,
                     RequiredExamples(schema.Required, schema.Properties, EmptyMap), 0)

\* register.go:203-346: the text, and the argument map of its EXAMPLE line.
\* listOrder and exampleOrder are the orders of the two loops over the
\* properties.
generateAIFriendlyDescription(op, schema, listOrder, exampleOrder) ==
    LET properties == schema.Properties
        requiredParams == schema.Required
        optionalParams == OptionalLines(listOrder, properties, requiredParams)
        parameters ==
            IF DOMAIN properties # {}
            THEN <<"PARAMETERS:">>
                     \o (IF Len(requiredParams) > 0
                         THEN <<"Required:">> \o RequiredLines(requiredParams, properties)
                         ELSE << >>)
                     \o (IF Len(optionalParams) > 0
                         THEN <<"Optional:">> \o optionalParams
                         ELSE << >>)
            ELSE << >>
    IN  [text |-> parameters \o <<"EXAMPLE: call ", op.OperationID>>
                     \o (IF op.Method \in {"get", "post", "put"}
                         THEN <<"RESPONSE: ">> ELSE << >>)
                     \o (IF op.Method \in {"delete", "put", "post"}
                         THEN <<"SAFETY: ">> ELSE << >>),
         example |-> ExampleArgs(schema, exampleOrder)]

\* ---- end of part I ----

(***************************************************************************)
(* PART II.  Inputs.                                                       *)
(***************************************************************************)

(***************************************************************************)
(* Inputs of the name escaper.                                             *)
(***************************************************************************)
Alphabet == {"a", "_", "[", "]"}

Names == UNION {[1..n -> Alphabet] : n \in 0..MaxNameLen}

\* declared parameter names: plain, bracketed, and pairs that escape alike
N_id    == <<"id">>
N_fa    == <<"f", "[", "a", "]">>
N_faRev == <<"f", "]", "a", "[">>
N_faEsc == <<"f", "_", "a", "_">>
N_page  == <<"p", "[", "n", "]">>
N_open  == <<"q", "[">>

ParamNames == {N_id, N_fa, N_faRev, N_faEsc, N_page, N_open}

\* an openapi3.ParameterRef: HasValue is FALSE for a nil reference or a nil Value
\* HasSchema is FALSE when p.Schema or its Value is nil; Type is the schema's type
Param(n, in, req, type) ==
    [HasValue |-> TRUE, Name |-> n, In |-> in, Required |-> req,
     HasSchema |-> TRUE, Type |-> type]

NilParam ==
    [HasValue |-> FALSE, Name |-> << >>, In |-> "", Required |-> FALSE,
     HasSchema |-> FALSE, Type |-> ""]

NameParam(n) == Param(n, "query", FALSE, "string")

\* parameter lists; a nil entry (a ParameterRef without a value) is skipped by the code
ParamLists ==
    UNION {[1..n -> {NameParam(x) : x \in ParamNames} \cup {NilParam}] : n \in 0..MaxParams}

\* keys handed to unescapeParameterName
LookupKeys == ParamNames \cup {escapeParameterName(x) : x \in ParamNames}

NoLookup == [done |-> FALSE, key |-> << >>, result |-> << >>]

(***************************************************************************)
(* Inputs of the registrar.                                                *)
(***************************************************************************)
Tags == {"A", "B", "C"}

\* tag lists of an operation: no tag twice
TagLists ==
    {t \in UNION {[1..n -> Tags] : n \in 0..MaxTags} :
        \A i, j \in 1..Len(t) : i # j => t[i] # t[j]}

TagFilters == {<< >>, <<"A">>, <<"A", "B">>}

NilOpts == [IsNil |-> TRUE, TagFilter |-> << >>, DryRun |-> FALSE]

Options == {NilOpts} \cup [IsNil : {FALSE}, TagFilter : TagFilters, DryRun : BOOLEAN]

Docs == [HasInfo : BOOLEAN, HasExternalDocs : BOOLEAN,
         Servers : {<< >>, <<"">>, <<"https://a.example">>, <<"", "https://b.example">>}]

NoOp == [OperationID |-> 0, Tags |-> << >>, registered |-> FALSE]

(***************************************************************************)
(* Inputs of the dispatcher.                                               *)
(***************************************************************************)
\* doc.Components.SecuritySchemes of the document
SecuritySchemes ==
    [n \in {"ApiKeyAuth", "QueryKeyAuth", "CookieKeyAuth", "BearerAuth", "BasicAuth", "OAuth"} |->
        CASE n = "ApiKeyAuth"    -> [Type |-> "apiKey", Scheme |-> "", In |-> "header", Name |-> <<"X-Key">>]
          [] n = "QueryKeyAuth"  -> [Type |-> "apiKey", Scheme |-> "", In |-> "query", Name |-> <<"api_key">>]
          [] n = "CookieKeyAuth" -> [Type |-> "apiKey", Scheme |-> "", In |-> "cookie", Name |-> <<"sid">>]
          [] n = "BearerAuth"    -> [Type |-> "http", Scheme |-> "bearer", In |-> "", Name |-> << >>]
          [] n = "BasicAuth"     -> [Type |-> "http", Scheme |-> "basic", In |-> "", Name |-> << >>]
          [] n = "OAuth"         -> [Type |-> "oauth2", Scheme |-> "", In |-> "", Name |-> << >>]]

\* one security requirement: the scheme names of one alternative.  "Undeclared"
\* names a scheme the document's components do not define.
Alternatives ==
    {{"ApiKeyAuth"}, {"QueryKeyAuth"}, {"CookieKeyAuth"}, {"BearerAuth"}, {"BasicAuth"},
     {"OAuth"}, {"Undeclared"}, {"ApiKeyAuth", "BearerAuth"}}

SecurityLists == UNION {[1..n -> Alternatives] : n \in 0..MaxAlternatives}

\* the orders in which a range over a Go map may visit the names of one alternative
Orderings(S) ==
    {q \in [1..Cardinality(S) -> S] : \A i, j \in 1..Cardinality(S) : i # j => q[i] # q[j]}

\* the orders in which the two loops of tool.go:231-236 may try the schemes
RECURSIVE SchemeOrders(_)
SchemeOrders(security) ==
    IF security = << >>
    THEN {<< >>}
    ELSE {first \o rest : first \in Orderings(Head(security)),
                          rest \in SchemeOrders(Tail(security))}

Env(apiKey, bearer, basic, apiKeyHeader) ==
    [API_KEY |-> apiKey, BEARER_TOKEN |-> bearer, BASIC_AUTH |-> basic,
     API_KEY_HEADER |-> apiKeyHeader]

NoEnv == Env(<< >>, << >>, << >>, << >>)

TheKey    == <<"key-0">>
TheToken  == <<"token-0">>
TheBasic  == <<"user:pass">>

Environments ==
    {Env(k, t, b, h) : k \in {<< >>, TheKey}, t \in {<< >>, TheToken},
                       b \in {<< >>, TheBasic},
                       h \in {<< >>, <<"X-Legacy-Key">>, H_Authorization}}

NoBody == [present |-> FALSE, required |-> FALSE]

N_limit == <<"limit">>
N_xkey  == <<"X-Key">>
N_track == <<"track">>

\* the path template of an operation: one placeholder per path parameter
RECURSIVE PathOf(_)
PathOf(ps) ==
    IF ps = << >>
    THEN <<<<"/items">>>>
    ELSE IF Head(ps).HasValue /\ Head(ps).In = "path"
         THEN <<<<"/">>, Placeholder(Head(ps).Name)>> \o PathOf(Tail(ps))
         ELSE PathOf(Tail(ps))

Operation(method, ps, body, security) ==
    [OperationID |-> "theOperation", Method |-> method, Path |-> PathOf(ps),
     Parameters |-> ps, Body |-> body, Security |-> security]

\* what RegisterOpenAPITools binds to the handler (register.go:827-869)
Tool(op, confirm, urls) ==
    [name |-> op.OperationID, op |-> op, schema |-> BuildInputSchema(op.Parameters, op.Body),
     baseURLs |-> urls, confirmDangerousActions |-> confirm]

Methods == {"get", "post", "put", "delete", "patch"}

GoodURL == <<"https://a.example">>

\* parameter lists of the operations dispatched: none; a required integer
\* path parameter and an optional bracketed query parameter; a parameter
\* whose schema type no JSON-Schema validator loads; a required bracketed
\* path parameter
DispatchParamLists ==
    {<< >>,
     <<Param(N_id, "path", TRUE, "integer"), Param(N_fa, "query", FALSE, "string")>>,
     <<Param(N_limit, "query", FALSE, "int")>>,
     <<Param(N_fa, "path", TRUE, "string")>>}

DispatchTools ==
    {Tool(Operation(m, ps, NoBody, sec), c, urls) :
        m \in Methods, ps \in DispatchParamLists,
        sec \in {<< >>, <<{"ApiKeyAuth"}>>},
        c \in BOOLEAN, urls \in {<<GoodURL>>, <<GoodURL, MalformedURL>>}}

\* parameter lists of the operations whose authentication is examined:
\* header and cookie parameters, one of them named like a credential header
AuthParamLists ==
    {<< >>,
     <<Param(N_xkey, "header", FALSE, "string")>>,
     <<Param(H_Authorization, "header", FALSE, "string")>>,
     <<Param(N_track, "cookie", FALSE, "string")>>}

AuthTools ==
    {Tool(Operation("get", ps, NoBody, sec), FALSE, <<GoodURL>>) :
        ps \in AuthParamLists, sec \in SecurityLists}

\* the values a caller may give a property of the given schema type: one the
\* validator accepts and one it rejects
\* the least integral float64 that is no int64
BigFloat == NumVal(MaxInt64 + 1, 0)

Archs == {"amd64", "arm64"}

ValuesFor(type) ==
    CASE type = "integer" -> {NumVal(5, 0), NumVal(5, 5), BigFloat}
      [] type = "string"  -> {StrVal(<<"caller-value">>), NumVal(5, 0)}
      [] OTHER            -> {StrVal(<<"caller-value">>)}

CandidateValues(schema, k) ==
    IF k = K_stream THEN {BoolVal(TRUE)}
    ELSE IF k = K_confirmed THEN {BoolVal(TRUE), BoolVal(FALSE)}
    ELSE ValuesFor(schema.Properties[k].Type)

AllValues ==
    {NumVal(5, 0), NumVal(5, 5), BigFloat, StrVal(<<"caller-value">>), BoolVal(TRUE), BoolVal(FALSE)}

\* the argument objects a caller may send: any subset of the schema's
\* properties and of the markers stream and __confirmed
ArgSets(schema) ==
    LET keys == DOMAIN schema.Properties \cup {K_stream, K_confirmed}
    IN  UNION {{a \in [K -> AllValues] : \A k \in K : a[k] \in CandidateValues(schema, k)} :
                  K \in SUBSET keys}

NoResponse ==
    [failed |-> FALSE, status |-> 0, contentType |-> << >>, disposition |-> << >>,
     body |-> << >>]

Statuses == {200, 201, 302, 400, 401, 404, 500}

ContentTypes ==
    {<<"application/json">>, <<"application/json", "; charset=utf-8">>,
     <<"text/", "plain">>, <<"application/octet-stream">>}

\* what the transport may return: an error, or a response
\* Content-Disposition headers: none, one without a file name, one with
Dispositions ==
    {<< >>, <<"inline">>, <<"attachment; ", "filename=", "\"", "a.bin", "\"">>}

Responses ==
    {[failed |-> TRUE, status |-> 0, contentType |-> << >>, disposition |-> << >>,
      body |-> << >>]}
    \cup UNION {{[failed |-> FALSE, status |-> st, contentType |-> ct, disposition |-> cd,
                  body |-> <<"payload">>] :
                    st \in Statuses,
                    cd \in IF IsBinary(ct) THEN Dispositions ELSE {<< >>}} :
                 ct \in ContentTypes}

\* the one response the authentication runs are answered with
PlainOK ==
    [failed |-> FALSE, status |-> 200, contentType |-> <<"application/json">>,
     disposition |-> << >>, body |-> <<"payload">>]

(***************************************************************************)
(* Inputs of the server: concurrent HTTP requests, each with its own       *)
(* credential.                                                             *)
(***************************************************************************)
Requests == 1..MaxRequests

\* the credential that belongs to request i
Credential(i) == <<"credential-of", ToString(i)>>

\* the headers request i may arrive with
RequestHeaders(i) ==
    {EmptyMap,
     MapSet(EmptyMap, H_XAPIKey, Credential(i)),
     MapSet(EmptyMap, H_ApiKey, Credential(i)),
     MapSet(EmptyMap, H_Authorization, BearerValue(Credential(i))),
     MapSet(EmptyMap, H_Authorization, <<"Basic ">> \o Credential(i))}

\* the authContext of a request that has not run authContextFunc yet
NoContext == authContext(NoEnv)

Session(header) ==
    [at |-> "new", header |-> header, ctx |-> NoContext, req |-> NoRequest,
     disturbed |-> FALSE]

ServerTools ==
    {Tool(Operation("get", << >>, NoBody, sec), FALSE, <<GoodURL>>) :
        sec \in {<< >>, <<{"ApiKeyAuth"}>>, <<{"BearerAuth"}>>}}

\* what the operator configured before the server started
ServerEnvs ==
    {NoEnv,
     Env(<< >>, << >>, << >>, <<"X-Legacy-Key">>),
     Env(TheKey, TheToken, << >>, <<"X-Legacy-Key">>)}

(***************************************************************************)
(* Inputs of the schema assembler.                                         *)
(***************************************************************************)
AsmNames == {N_id, N_fa, N_faRev, N_faEsc}

\* a parameter that declares no schema
SchemalessParam(n) ==
    [HasValue |-> TRUE, Name |-> n, In |-> "query", Required |-> TRUE,
     HasSchema |-> FALSE, Type |-> ""]

\* "formData" is a location the assembler does not support
AsmParams ==
    {Param(n, in, req, "string") : n \in AsmNames, in \in {"query", "path", "formData"},
                                   req \in BOOLEAN}
    \cup {NilParam, SchemalessParam(N_fa)}

AsmParamLists == UNION {[1..n -> AsmParams] : n \in 0..MaxParams}

\* no request body, an optional JSON body, a required JSON body
RequestBodies == {NoBody, [present |-> TRUE, required |-> FALSE],
                  [present |-> TRUE, required |-> TRUE]}

NoSchema == [Type |-> "", Properties |-> EmptyMap, HasRequired |-> FALSE, Required |-> << >>]

(***************************************************************************)
(* Inputs of the example run: the schemas a parameter may declare.         *)
(***************************************************************************)
NilSchemaRef ==
    [IsNil |-> TRUE, Type |-> "", Format |-> "", Enum |-> << >>,
     HasExample |-> FALSE, Example |-> NoVal]

SchemaTypes == {"", "string", "integer", "boolean", "number"}

SchemaFormats == {"", "email", "uuid"}

SchemaEnums == {<< >>, <<StrVal(<<"option1">>), StrVal(<<"option2">>)>>}

CustomExample == StrVal(<<"custom_example">>)

DeclaredSchemas ==
    {NilSchemaRef}
        \cup {[IsNil |-> FALSE, Type |-> ty, Format |-> fm, Enum |-> en,
               HasExample |-> he, Example |-> IF he THEN CustomExample ELSE NoVal] :
                 ty \in SchemaTypes, fm \in SchemaFormats, en \in SchemaEnums,
                 he \in BOOLEAN}

(***************************************************************************)
(* Inputs of description generation.                                       *)
(***************************************************************************)
\* how often the description of one operation is generated
MaxDescriptions == 2

DescribeParams ==
    {Param(n, "query", req, ty) : n \in {N_id, N_page}, req \in BOOLEAN,
                                  ty \in {"string", "integer"}}

DescribeParamLists == UNION {[1..n -> DescribeParams] : n \in 0..MaxParams}

\* the operation whose description is generated
DescribedOperation == Operation("get", << >>, NoBody, << >>)

\* ---- end of part II ----

(***************************************************************************)
(* PART III.  Components at rest.                                          *)
(***************************************************************************)

\* the name escaper has nothing to do
NamesIdle ==
    /\ name = << >> /\ escaped = << >> /\ twice = << >> /\ params = << >>
    /\ mapping = EmptyMap /\ lookup = NoLookup /\ nstep = "idle"

\* the registrar has nothing to do
RegIdle ==
    /\ doc = [HasInfo |-> TRUE, HasExternalDocs |-> FALSE, Servers |-> << >>]
    /\ opts = NilOpts
    /\ baseURLEnv = ""
    /\ rstep = "idle"
    /\ baseURLs = << >>
    /\ curOp = NoOp
    /\ opCount = 0
    /\ toolNames = << >>
    /\ serverTools = {}

\* no invocation yet
CallIdle ==
    /\ pc = "idle"
    /\ callArgs = EmptyMap
    /\ sentReq = NoRequest
    /\ callResp = NoResponse
    /\ result = NoResult
    /\ sends = 0

\* no number is converted: the build does not matter
BuildIdle == arch = "amd64"

\* the dispatcher has nothing to do
DispatchIdle ==
    /\ tool = Tool(Operation("get", << >>, NoBody, << >>), FALSE, <<GoodURL>>)
    /\ env = NoEnv
    /\ pc = "off"
    /\ callArgs = EmptyMap
    /\ sentReq = NoRequest
    /\ callResp = NoResponse
    /\ result = NoResult
    /\ sends = 0

\* no HTTP request is being served
ServerIdle == sessions = << >> /\ origEnv = NoEnv

\* the assembler has nothing to do
AsmIdle ==
    /\ asmParams = << >>
    /\ requestBody = NoBody
    /\ inputSchema = NoSchema
    /\ astep = "off"

\* no example run
ExampleIdle ==
    /\ declared = NilSchemaRef
    /\ property = NilProperty
    /\ exampleValue = NoVal
    /\ estep = "off"

\* no description generated
DescribeIdle == descriptions = << >>

\* ---- end of part III ----

(***************************************************************************)
(* PART IV.  Specifications.                                               *)
(***************************************************************************)

(***************************************************************************)
(* The name-escaper run: a name is escaped, then escaped again; a mapping  *)
(* is built for a parameter list and keys are looked up in it.             *)
(***************************************************************************)
InitNames ==
    /\ name \in Names
    /\ params \in ParamLists
    /\ \/ name = << >>
       \/ params = << >>
    /\ escaped = << >>
    /\ twice = << >>
    /\ mapping = EmptyMap
    /\ lookup = NoLookup
    /\ nstep = "start"
    /\ RegIdle
    /\ DispatchIdle
    /\ ServerIdle
    /\ AsmIdle
    /\ BuildIdle
    /\ ExampleIdle
    /\ DescribeIdle

Escape ==
    /\ nstep = "start"
    /\ escaped' = escapeParameterName(name)
    /\ nstep' = "escaped"
    /\ UNCHANGED <<name, twice, params, mapping, lookup, regVars, dispVars, srvVars, asmVars, buildVars, exVars, descVars>>

EscapeAgain ==
    /\ nstep = "escaped"
    /\ twice' = escapeParameterName(escaped)
    /\ nstep' = "twice"
    /\ UNCHANGED <<name, escaped, params, mapping, lookup, regVars, dispVars, srvVars, asmVars, buildVars, exVars, descVars>>

BuildMapping ==
    /\ nstep = "start"
    /\ mapping' = buildParameterNameMapping(params)
    /\ nstep' = "mapped"
    /\ UNCHANGED <<name, escaped, twice, params, lookup, regVars, dispVars, srvVars, asmVars, buildVars, exVars, descVars>>

Unescape ==
    /\ nstep = "mapped"
    /\ \E k \in LookupKeys :
          lookup' = [done |-> TRUE, key |-> k, result |-> unescapeParameterName(k, mapping)]
    /\ UNCHANGED <<name, escaped, twice, params, mapping, nstep, regVars, dispVars, srvVars, asmVars, buildVars, exVars, descVars>>

NextNames == Escape \/ EscapeAgain \/ BuildMapping \/ Unescape

SpecNames == InitNames /\ [][NextNames]_vars

(***************************************************************************)
(* RegisterOpenAPITools, in three steps: the base-URL candidates, one loop *)
(* iteration per operation in source order, and the meta-tools.            *)
(***************************************************************************)
InitRegister ==
    /\ doc \in Docs
    /\ opts \in Options
    /\ baseURLEnv \in {"", "https://override.example"}
    /\ rstep = "start"
    /\ baseURLs = << >>
    /\ curOp = NoOp
    /\ opCount = 0
    /\ toolNames = << >>
    /\ serverTools = {}
    /\ NamesIdle
    /\ DispatchIdle
    /\ ServerIdle
    /\ AsmIdle
    /\ BuildIdle
    /\ ExampleIdle
    /\ DescribeIdle

RegisterStart ==
    /\ rstep = "start"
    /\ baseURLs' = BaseURLCandidates(baseURLEnv, doc)
    /\ rstep' = "loop"
    /\ UNCHANGED <<doc, opts, baseURLEnv, curOp, opCount, toolNames, serverTools, nameVars, dispVars, srvVars, asmVars, buildVars, exVars, descVars>>

\* one iteration of the loop over ops; the operation's identifier is its position
RegisterOperation ==
    /\ rstep = "loop"
    /\ opCount < MaxOps
    /\ \E tags \in TagLists :
          LET op == [OperationID |-> opCount + 1, Tags |-> tags]
              keep == filterByTag(opts, op)
          IN  /\ curOp' = [OperationID |-> op.OperationID, Tags |-> tags, registered |-> keep]
              /\ toolNames' = IF keep THEN Append(toolNames, OpTool(op.OperationID))
                                      ELSE toolNames
              /\ serverTools' = IF keep /\ ~DryRun(opts)
                                THEN serverTools \cup {OpTool(op.OperationID)}
                                ELSE serverTools
    /\ opCount' = opCount + 1
    /\ UNCHANGED <<doc, opts, baseURLEnv, rstep, baseURLs, nameVars, dispVars, srvVars, asmVars, buildVars, exVars, descVars>>

\* after the loop: externalDocs, info, and the return of the name list
RegisterMetaTools ==
    /\ rstep = "loop"
    /\ LET withDocs == WithExternalDocs(doc, opts)
           withInfo == WithInfo(doc, opts)
           n1 == IF withDocs THEN Append(toolNames, ExternalDocsTool) ELSE toolNames
           n2 == IF withInfo THEN Append(n1, InfoTool) ELSE n1
       IN  /\ toolNames' = n2
           /\ serverTools' = serverTools
                                \cup (IF withDocs THEN {ExternalDocsTool} ELSE {})
                                \cup (IF withInfo THEN {InfoTool} ELSE {})
    /\ rstep' = "done"
    /\ UNCHANGED <<doc, opts, baseURLEnv, baseURLs, curOp, opCount, nameVars, dispVars, srvVars, asmVars, buildVars, exVars, descVars>>

NextRegister == RegisterStart \/ RegisterOperation \/ RegisterMetaTools

SpecRegister == InitRegister /\ [][NextRegister]_vars

(***************************************************************************)
(* One tool and its invocations.  toolHandler runs up to the transport     *)
(* call (Call), the transport answers, and the handler turns the answer    *)
(* into its result (TransportReturns).  The handler keeps nothing from one *)
(* invocation to the next, so a behaviour follows one invocation.          *)
(***************************************************************************)
\* tool.go:23-300: validation, request construction, authentication
Call ==
    /\ pc = "idle"
    /\ \E a \in ArgSets(tool.schema),
          baseURL \in Elems(tool.baseURLs),
          order \in SchemeOrders(tool.op.Security) :
          LET verdict == Validate(tool.schema, a)
          IN  /\ callArgs' = a
              /\ callResp' = NoResponse
              /\ IF verdict = "error"
                 THEN /\ result' = LoaderErrorResult
                      /\ sentReq' = NoRequest
                      /\ sends' = sends
                      /\ pc' = "done"
                 ELSE IF verdict = "invalid"
                      THEN /\ result' = WithExample(ValidationFailureResult,
                                                   RetryExampleArgs(tool.schema.Properties))
                           /\ sentReq' = NoRequest
                           /\ sends' = sends
                           /\ pc' = "done"
                      ELSE IF JoinPathFails(baseURL)
                           THEN /\ result' = RequestErrorResult
                                /\ sentReq' = NoRequest
                                /\ sends' = sends
                                /\ pc' = "done"
                           ELSE /\ result' = NoResult
                                /\ sends' = sends + 1
                                /\ sentReq' = PrepareRequest(tool.op, a, baseURL, order,
                                                             SecuritySchemes, env)
                                /\ pc' = "sent"
    /\ UNCHANGED <<tool, env, nameVars, regVars, srvVars, asmVars, buildVars, exVars, descVars>>

\* tool.go:300-452: the transport's answer and the handler's result
TransportReturns(answers) ==
    /\ pc = "sent"
    /\ \E r \in answers :
          /\ callResp' = r
          /\ result' = IF r.failed
                       THEN TransportErrorResult
                       ELSE Respond(tool.op, tool.confirmDangerousActions, callArgs, r)
    /\ pc' = "done"
    /\ UNCHANGED <<tool, env, callArgs, sentReq, sends, nameVars, regVars, srvVars, asmVars, buildVars, exVars, descVars>>

Init ==
    /\ tool \in DispatchTools
    /\ env \in {NoEnv, Env(TheKey, TheToken, << >>, << >>)}
    /\ arch \in Archs
    /\ CallIdle
    /\ NamesIdle
    /\ RegIdle
    /\ ServerIdle
    /\ AsmIdle
    /\ ExampleIdle
    /\ DescribeIdle

Next == Call \/ TransportReturns(Responses)

Spec == Init /\ [][Next]_vars

\* the authentication of one tool under every environment
InitAuth ==
    /\ tool \in AuthTools
    /\ env \in Environments
    /\ CallIdle
    /\ NamesIdle
    /\ RegIdle
    /\ ServerIdle
    /\ AsmIdle
    /\ BuildIdle
    /\ ExampleIdle
    /\ DescribeIdle

NextAuth == Call \/ TransportReturns({PlainOK})

SpecAuth == InitAuth /\ [][NextAuth]_vars

(***************************************************************************)
(* The server under concurrent HTTP requests.  Each request runs           *)
(* authContextFunc (reading the environment, then writing it), then the    *)
(* tool handler, which reads the environment to authenticate the outbound  *)
(* request, and restoreEnv once its context is done.  os.Getenv and        *)
(* os.Setenv are serialised by the runtime, nothing else is: the steps of  *)
(* different requests interleave freely.                                   *)
(***************************************************************************)
\* env changes under the feet of every other request that has installed
\* its credentials and not yet dispatched
Disturb(i, e) ==
    [j \in Requests |->
        IF j # i /\ sessions[j].at = "installed" /\ e # env
        THEN [sessions[j] EXCEPT !.disturbed = TRUE]
        ELSE sessions[j]]

\* server.go:20-22
SaveOriginals(i) ==
    /\ sessions[i].at = "new"
    /\ sessions' = [sessions EXCEPT ![i].ctx = authContext(env), ![i].at = "saved"]
    /\ UNCHANGED <<origEnv, tool, env, callVars, nameVars, regVars, asmVars, buildVars, exVars, descVars>>

\* server.go:25-37
InstallCredentials(i) ==
    /\ sessions[i].at = "saved"
    /\ env' = authContextFunc(env, sessions[i].header)
    /\ sessions' = [Disturb(i, env') EXCEPT ![i].at = "installed"]
    /\ UNCHANGED <<origEnv, tool, callVars, nameVars, regVars, asmVars, buildVars, exVars, descVars>>

\* tool.go:145-300, run by the request's handler
Dispatch(i) ==
    /\ sessions[i].at = "installed"
    /\ \E order \in SchemeOrders(tool.op.Security) :
          sessions' = [sessions EXCEPT
              ![i].req = PrepareRequest(tool.op, EmptyMap, tool.baseURLs[1], order,
                                        SecuritySchemes, env),
              ![i].at = "dispatched"]
    /\ UNCHANGED <<origEnv, tool, env, callVars, nameVars, regVars, asmVars, buildVars, exVars, descVars>>

\* server.go:57-84: the goroutine started by Done
RestoreEnv(i) ==
    /\ sessions[i].at = "dispatched"
    /\ env' = restoreEnv(sessions[i].ctx, env)
    /\ sessions' = [Disturb(i, env') EXCEPT ![i].at = "restored"]
    /\ UNCHANGED <<origEnv, tool, callVars, nameVars, regVars, asmVars, buildVars, exVars, descVars>>

InitServer ==
    /\ tool \in ServerTools
    /\ env \in ServerEnvs
    /\ origEnv = env
    /\ sessions \in {[i \in Requests |-> Session(h[i])] :
                        h \in {f \in [Requests -> UNION {RequestHeaders(i) : i \in Requests}] :
                                  \A i \in Requests : f[i] \in RequestHeaders(i)}}
    /\ pc = "off"
    /\ callArgs = EmptyMap
    /\ sentReq = NoRequest
    /\ callResp = NoResponse
    /\ result = NoResult
    /\ sends = 0
    /\ NamesIdle
    /\ RegIdle
    /\ AsmIdle
    /\ BuildIdle
    /\ ExampleIdle
    /\ DescribeIdle

NextServer ==
    \E i \in Requests :
        SaveOriginals(i) \/ InstallCredentials(i) \/ Dispatch(i) \/ RestoreEnv(i)

SpecServer == InitServer /\ [][NextServer]_vars

(***************************************************************************)
(* The schema assembler on every parameter list and request body.          *)
(***************************************************************************)
InitSchema ==
    /\ asmParams \in AsmParamLists
    /\ requestBody \in RequestBodies
    /\ inputSchema = NoSchema
    /\ astep = "start"
    /\ NamesIdle
    /\ RegIdle
    /\ DispatchIdle
    /\ ServerIdle
    /\ BuildIdle
    /\ ExampleIdle
    /\ DescribeIdle

\* schema.go:155-226
Assemble ==
    /\ astep = "start"
    /\ inputSchema' = BuildInputSchema(asmParams, requestBody)
    /\ astep' = "assembled"
    /\ UNCHANGED <<asmParams, requestBody, nameVars, regVars, dispVars, srvVars, buildVars, exVars, descVars>>

NextSchema == Assemble

SpecSchema == InitSchema /\ [][NextSchema]_vars

(***************************************************************************)
(* One property from its declaration to its example value.                 *)
(***************************************************************************)
InitExample ==
    /\ declared \in DeclaredSchemas
    /\ property = NilProperty
    /\ exampleValue = NoVal
    /\ estep = "start"
    /\ NamesIdle
    /\ RegIdle
    /\ DispatchIdle
    /\ ServerIdle
    /\ AsmIdle
    /\ BuildIdle
    /\ DescribeIdle

\* schema.go:62-145
ExtractProperty ==
    /\ estep = "start"
    /\ property' = extractProperty(declared)
    /\ estep' = "extracted"
    /\ UNCHANGED <<declared, exampleValue, nameVars, regVars, dispVars, srvVars, asmVars, buildVars, descVars>>

\* register.go:163-180 and 351-400
GenerateExample ==
    /\ estep = "extracted"
    /\ exampleValue' = ExampleOfProperty(property)
    /\ estep' = "done"
    /\ UNCHANGED <<declared, property, nameVars, regVars, dispVars, srvVars, asmVars, buildVars, descVars>>

NextExample == ExtractProperty \/ GenerateExample

SpecExample == InitExample /\ [][NextExample]_vars

(***************************************************************************)
(* The description of one operation, generated again and again from the    *)
(* same assembled schema.                                                  *)
(***************************************************************************)
InitDescribe ==
    /\ asmParams \in DescribeParamLists
    /\ requestBody \in RequestBodies
    /\ inputSchema = BuildInputSchema(asmParams, requestBody)
    /\ astep = "assembled"
    /\ descriptions = << >>
    /\ NamesIdle
    /\ RegIdle
    /\ DispatchIdle
    /\ ServerIdle
    /\ BuildIdle
    /\ ExampleIdle

\* register.go:203-346
Describe ==
    /\ Len(descriptions) < MaxDescriptions
    /\ \E listOrder \in Orderings(DOMAIN inputSchema.Properties),
          exampleOrder \in Orderings(DOMAIN inputSchema.Properties) :
          descriptions' = Append(descriptions,
              generateAIFriendlyDescription(DescribedOperation, inputSchema,
                                            listOrder, exampleOrder))
    /\ UNCHANGED <<nameVars, regVars, dispVars, srvVars, asmVars, buildVars, exVars>>

NextDescribe == Describe

SpecDescribe == InitDescribe /\ [][NextDescribe]_vars

\* ---- end of part IV ----

(***************************************************************************)
(* PART V.  Properties.                                                    *)
(***************************************************************************)

(***************************************************************************)
(* Properties of the name escaper.                                         *)
(***************************************************************************)
\* two distinct declared names of the list escape to the same string
Collides(ps) ==
    \E i, j \in DOMAIN ps :
        /\ ps[i].HasValue /\ ps[j].HasValue
        /\ ps[i].Name # ps[j].Name
        /\ escapeParameterName(ps[i].Name) = escapeParameterName(ps[j].Name)

\* the lookup made is the round trip of parameter i
RoundTripOf(i) ==
    /\ lookup.done
    /\ params[i].HasValue
    /\ lookup.key = escapeParameterName(params[i].Name)

\* C8 as stated: the round trip unescape(escape(p.Name), buildMapping(params))
\* gives back p.Name for every parameter p of every list, lists in which two
\* distinct declared names escape to the same string included.
C8_RoundTripEveryList ==
    \A i \in DOMAIN params : RoundTripOf(i) => lookup.result = params[i].Name

\* C8 amended: the round trip gives back p.Name for every parameter p of a
\* list in which no two distinct declared names escape to the same string.
C8_RoundTripWithoutCollision ==
    ~Collides(params) =>
        \A i \in DOMAIN params : RoundTripOf(i) => lookup.result = params[i].Name

\* a bracketed parameter of a two-name list without collision was looked up
\* under its escaped name and its declared name came back
C8_Witness ==
    /\ ~Collides(params)
    /\ Len(params) = 2
    /\ params[1].HasValue /\ params[2].HasValue
    /\ params[1].Name # params[2].Name
    /\ \E i \in DOMAIN params :
          /\ RoundTripOf(i)
          /\ HasBracket(params[i].Name)
          /\ lookup.key # params[i].Name
          /\ lookup.result = params[i].Name

C10_EscapeIdempotent ==
    (nstep = "twice" /\ HasBracket(name)) => twice = escaped

\* a bracketed name not ending in "_" was escaped twice
C10_Witness ==
    /\ nstep = "twice"
    /\ HasBracket(name)
    /\ ~HasSuffix(name, "_")
    /\ escaped # name
    /\ Len(escaped) = Len(name) + 1
    /\ twice = escaped

(***************************************************************************)
(* Properties of the registrar.                                            *)
(***************************************************************************)
\* C1: with a non-empty tag filter an operation is registered if and only if
\* its tag set intersects the filter set, whatever the order of its tags.
C1_TagFilterIntersects ==
    (curOp.OperationID # 0 /\ ~opts.IsNil /\ Len(opts.TagFilter) > 0) =>
        (curOp.registered <=> Elems(curOp.Tags) \cap Elems(opts.TagFilter) # {})

(***************************************************************************)
(* The dispatcher.                                                         *)
(***************************************************************************)
\* the invocation is of a mutating operation of a tool registered with
\* confirmation enabled
GatedCall == tool.confirmDangerousActions /\ IsMutating(ToUpper(tool.op.Method))

\* the transport answered 200 with a body that is not binary
AnsweredPlain200 ==
    /\ pc = "done"
    /\ sentReq.built
    /\ ~callResp.failed
    /\ callResp.status = 200
    /\ ~IsBinary(callResp.contentType)

Confirmed == K_confirmed \in DOMAIN callArgs /\ callArgs[K_confirmed] = BoolVal(TRUE)

\* C2: for a mutating operation with confirmation enabled and a transport
\* answer of status 200 with a non-binary body, an invocation whose arguments
\* lack __confirmed returns a non-error confirmation request and not the
\* envelope, and one whose arguments carry __confirmed: true returns the 200
\* envelope with the raw body.
C2_ConfirmationGate ==
    (GatedCall /\ AnsweredPlain200)
        => /\ (K_confirmed \notin DOMAIN callArgs)
                  => (result.kind = "confirmation" /\ ~result.isError)
           /\ Confirmed
                  => (result.kind = "envelope" /\ result.status = 200
                      /\ result.body = callResp.body)

\* C3: for a mutating operation registered with confirmation enabled, no
\* outbound request is handed to the transport by an invocation whose
\* arguments do not carry the confirmation marker.
C3_NoRequestBeforeConfirmation ==
    (GatedCall /\ pc \in {"sent", "done"} /\ sentReq.built)
        => K_confirmed \in DOMAIN callArgs

\* C4: whenever the argument object fails validation against the assembled
\* schema, the invocation ends with a result whose error flag is set and
\* which carries a retry suggestion, and no outbound request is built or
\* handed to the transport in that invocation.
C4_ValidationFailureStopsCall ==
    (pc # "idle" /\ Validate(tool.schema, callArgs) = "invalid")
        => /\ pc = "done"
           /\ result.isError
           /\ result.retry
           /\ ~result.goErr
           /\ ~sentReq.built
           /\ callResp = NoResponse

\* C4 witness: an invocation of an operation with a required path parameter
\* whose arguments leave it out has ended.
C4_Witness ==
    /\ pc = "done"
    /\ Validate(tool.schema, callArgs) = "invalid"
    /\ \E k \in Elems(tool.schema.Required) : k \notin DOMAIN callArgs
    /\ result.retry

\* the caller supplies a value for a header-location parameter named h
SuppliesHeader(h) ==
    \E i \in 1..Len(tool.op.Parameters) :
        LET p == tool.op.Parameters[i]
        IN  /\ p.HasValue
            /\ p.In = "header"
            /\ p.Name = h
            /\ getParameterValue(callArgs, p.Name, EmptyMap).ok

\* the operation's security is one alternative naming the apiKey scheme
\* located in header X-Key, an API key is configured, and a request was
\* dispatched
KeyInHeaderCase ==
    /\ tool.op.Security = <<{"ApiKeyAuth"}>>
    /\ env.API_KEY # << >>
    /\ pc \in {"sent", "done"}
    /\ sentReq.built

\* C6 (as stated): in that case the dispatched request carries header X-Key
\* with the configured key and the legacy fallback sets no Authorization
\* header, whatever bearer or basic credentials are configured.
C6_KeyHeaderEveryCall ==
    KeyInHeaderCase
        => /\ HeaderGet(sentReq, N_xkey) = env.API_KEY
           /\ H_Authorization \notin sentReq.byFallback

\* C6 (amended): the same, for invocations in which the caller supplies no
\* value for a header-location parameter named X-Key.
C6_KeyHeaderUnlessOverridden ==
    (KeyInHeaderCase /\ ~SuppliesHeader(N_xkey))
        => /\ HeaderGet(sentReq, N_xkey) = env.API_KEY
           /\ H_Authorization \notin sentReq.byFallback

\* C6 witness: a request was dispatched for such an operation while an API
\* key, a bearer token and basic credentials were all configured.
C6_Witness ==
    /\ KeyInHeaderCase
    /\ ~SuppliesHeader(N_xkey)
    /\ env.BEARER_TOKEN # << >>
    /\ env.BASIC_AUTH # << >>
    /\ HeaderGet(sentReq, N_xkey) = TheKey
    /\ H_Authorization \notin DOMAIN sentReq.Headers

\* the operation declares no security, a bearer token is configured, and a
\* request was dispatched
BearerFallbackCase ==
    /\ tool.op.Security = << >>
    /\ env.BEARER_TOKEN # << >>
    /\ pc \in {"sent", "done"}
    /\ sentReq.built

\* C7 (as stated): in that case the Authorization header of the dispatched
\* request is "Bearer <token>", also when basic credentials are configured.
C7_BearerEveryCall ==
    BearerFallbackCase
        => HeaderGet(sentReq, H_Authorization) = BearerValue(env.BEARER_TOKEN)

\* C7 (amended): the same, for invocations in which the caller supplies no
\* value for a header-location parameter named Authorization.
C7_BearerUnlessOverridden ==
    (BearerFallbackCase /\ ~SuppliesHeader(H_Authorization))
        => HeaderGet(sentReq, H_Authorization) = BearerValue(env.BEARER_TOKEN)

\* C7 witness: a request was dispatched for an operation without security
\* while both a bearer token and basic credentials were configured, and its
\* Authorization header was written by the legacy fallback.
C7_Witness ==
    /\ BearerFallbackCase
    /\ ~SuppliesHeader(H_Authorization)
    /\ env.BASIC_AUTH # << >>
    /\ H_Authorization \in sentReq.byFallback
    /\ HeaderGet(sentReq, H_Authorization) = <<"Bearer ">> \o TheToken

(***************************************************************************)
(* Per-request credentials under concurrent requests.                      *)
(***************************************************************************)
\* sub occurs in v
Within(sub, v) ==
    \E k \in 0..(Len(v) - Len(sub)) : SubSeq(v, k + 1, k + Len(sub)) = sub

\* some header of the request carries the credential
Carries(req, cred) == \E h \in DOMAIN req.Headers : Within(cred, req.Headers[h])

KeyRequest(i) ==
    H_XAPIKey \in DOMAIN sessions[i].header \/ H_ApiKey \in DOMAIN sessions[i].header

BearerRequest(i) ==
    HasSchemePrefix(HeaderOf(sessions[i].header, H_Authorization), "Bearer ")

\* the tool authenticates with the kind of credential request i brought
UsesCredentialOf(i) ==
    \/ /\ KeyRequest(i)
       /\ \/ tool.op.Security = <<{"ApiKeyAuth"}>>
          \/ tool.op.Security = << >> /\ env.API_KEY_HEADER # << >>
    \/ /\ BearerRequest(i)
       /\ tool.op.Security \in {<< >>, <<{"BearerAuth"}>>}

Dispatched(i) == sessions[i].at \in {"dispatched", "restored"}

\* C5: the per-request override works only in isolation.  A request whose
\* handler ran without another request writing the environment between its
\* authContextFunc and its dispatch carries its own credential ...
C5_UndisturbedCarriesOwn ==
    \A i \in DOMAIN sessions :
        (Dispatched(i) /\ ~sessions[i].disturbed /\ UsesCredentialOf(i))
            => Carries(sessions[i].req, Credential(i))

\* ... and (C5 witness) an interleaving of two concurrent requests, each
\* with its own API key, is reachable in which the request dispatched for
\* one carries the key of the other and not its own, the other still being
\* in flight.
C5_Witness ==
    \E i, j \in DOMAIN sessions :
        /\ i # j
        /\ KeyRequest(i)
        /\ KeyRequest(j)
        /\ sessions[i].at = "dispatched"
        /\ sessions[j].at \in {"installed", "dispatched"}
        /\ Carries(sessions[i].req, Credential(j))
        /\ ~Carries(sessions[i].req, Credential(i))

(***************************************************************************)
(* Properties of the schema assembler.                                     *)
(***************************************************************************)
\* parameter i contributes a property to the schema
Contributes(i) == asmParams[i].HasValue /\ asmParams[i].HasSchema

\* C11: the escaped form of a bracketed name never equals a bracket-free
\* name, so a bracketed and a plain parameter of one operation never share
\* a property key of the assembled schema.
C11_EscapedNeverPlain ==
    astep = "assembled" =>
        \A i, j \in DOMAIN asmParams :
            (Contributes(i) /\ Contributes(j)
             /\ HasBracket(asmParams[i].Name) /\ ~HasBracket(asmParams[j].Name))
                => escapeParameterName(asmParams[i].Name)
                       # escapeParameterName(asmParams[j].Name)

\* C12: the assembled schema has type "object", and it has no required
\* entry at all when no parameter and no body is required.
C12_ObjectWithoutEmptyRequired ==
    astep = "assembled" =>
        /\ inputSchema.Type = "object"
        /\ ((\A i \in DOMAIN asmParams : ~(asmParams[i].HasValue /\ asmParams[i].Required))
            /\ ~(requestBody.present /\ requestBody.required))
               => (~inputSchema.HasRequired /\ inputSchema.Required = << >>)

\* C12 witness: a schema was assembled from two optional parameters and an
\* optional body: it has three properties and no required entry.
C12_Witness ==
    /\ astep = "assembled"
    /\ Len(asmParams) = 2
    /\ Contributes(1) /\ Contributes(2)
    /\ ~asmParams[1].Required /\ ~asmParams[2].Required
    /\ requestBody.present /\ ~requestBody.required
    /\ Cardinality(DOMAIN inputSchema.Properties) = 3
    /\ inputSchema.Type = "object"
    /\ ~inputSchema.HasRequired

RequestDispatched == pc \in {"sent", "done"} /\ sentReq.built

\* C14: an integer-typed path parameter bound to an integral value held as
\* a float is rendered into the path as the decimal text of that value,
\* without a decimal point: 5.0 gives the segment "5", and so for every
\* integral value.
C14_IntegerRenderedExactly ==
    RequestDispatched =>
        \A i \in DOMAIN tool.op.Parameters :
            LET p == tool.op.Parameters[i]
                got == getParameterValue(callArgs, p.Name, EmptyMap)
            IN  (p.HasValue /\ p.In = "path" /\ IsIntegerParam(p) /\ got.ok
                 /\ got.val.t = "number" /\ got.val.d = 0)
                    => \E k \in DOMAIN sentReq.Path :
                          sentReq.Path[k] = <<ToString(got.val.n)>>

\* the transport answered the invocation with a response
Answered == pc = "done" /\ sentReq.built /\ ~callResp.failed

\* body stands in text as it is, not inside its base64 encoding
RendersRaw(text, body) ==
    \E k \in 1..(Len(text) - Len(body) + 1) :
        /\ SubSeq(text, k, k + Len(body) - 1) = body
        /\ (k = 1 \/ text[k - 1] # "base64(")

\* the file name a Content-Disposition header gives
DeclaredFileName(cd) ==
    IF \E k \in DOMAIN cd : cd[k] = "filename=" THEN <<"a.bin">> ELSE <<"file">>

\* C15: for a response whose Content-Type is binary, at any status, the
\* result is an object holding file_base64 (the base64 of the body) and
\* file_name (from Content-Disposition, else "file"), and the body is
\* nowhere rendered as raw text.
C15_BinaryNeverRaw ==
    (Answered /\ IsBinary(callResp.contentType))
        => /\ Within(<<"file_base64: ">> \o Base64(callResp.body), result.text)
           /\ Within(<<"file_name: ">> \o DeclaredFileName(callResp.disposition)
                         \o <<"operation.id: ">>, result.text)
           /\ ~RendersRaw(result.text, callResp.body)

\* C16: a response with status 404 yields an error result whose text lists
\* every path parameter of the operation with the value the caller supplied,
\* or NOT_PROVIDED when none was supplied; a value supplied under the
\* escaped argument key counts as supplied.
C16_NotFoundListsPathParameters ==
    (Answered /\ callResp.status = 404)
        => /\ result.isError
           /\ \A i \in DOMAIN tool.op.Parameters :
                 LET p == tool.op.Parameters[i]
                     got == getParameterValue(callArgs, p.Name, EmptyMap)
                 IN  (p.HasValue /\ p.In = "path")
                        => Within(<<"* ">> \o p.Name \o <<": ">>
                                      \o (IF got.ok THEN DefaultFormat(got.val)
                                                    ELSE <<"NOT_PROVIDED">>),
                                  result.text)

\* C18: an invocation that passes validation and request construction calls
\* the transport exactly once; when the transport returns an error the
\* invocation ends with that error as a dispatcher-level error and no
\* result object, without a second call.
C18_TransportCalledOnce ==
    /\ sentReq.built => sends = 1
    /\ ~sentReq.built => sends = 0
    /\ (pc = "done" /\ sentReq.built /\ callResp.failed)
          => /\ result.goErr
             /\ ~result.isError
             /\ result.text = << >>
             /\ sends = 1

\* C18 witness: the transport failed a request and the invocation is over.
C18_Witness ==
    /\ pc = "done"
    /\ sentReq.built
    /\ callResp.failed
    /\ sends = 1
    /\ result.kind = "transport_error"

\* the opening of the guidance the status class calls for
GuidanceOpening(status) ==
    CASE status = 401 -> "AUTHENTICATION REQUIRED (401)"
      [] status = 403 -> "AUTHORIZATION FAILED (403)"
      [] status = 404 -> "RESOURCE NOT FOUND (404)"
      [] status = 400 -> "BAD REQUEST (400)"
      [] status >= 500 -> "SERVER ERROR"
      [] OTHER -> "Check the input parameters, authentication, and consult the tool schema."

\* an error result with the guidance of the status class and the operation
\* identifier
GuidedError ==
    /\ result.isError
    /\ ~result.goErr
    /\ result.status = callResp.status
    /\ Within(<<GuidanceOpening(callResp.status)>>, result.text)
    /\ Within(<<tool.op.OperationID>>, result.text)

\* C19 (as stated): every response with a status outside 200..299 ends the
\* invocation with an error result, no dispatcher-level error, whose
\* guidance follows the status class and whose text embeds the raw
\* response body and the operation identifier.
C19_ErrorEmbedsRawBody ==
    (Answered /\ ~Is2xx(callResp.status))
        => (GuidedError /\ RendersRaw(result.text, callResp.body))

\* C19 (amended): the same, the body being embedded as raw text when the
\* response is not binary and as its base64 encoding when it is.
C19_ErrorEmbedsBody ==
    (Answered /\ ~Is2xx(callResp.status))
        => /\ GuidedError
           /\ IF IsBinary(callResp.contentType)
              THEN Within(Base64(callResp.body), result.text)
              ELSE RendersRaw(result.text, callResp.body)

\* C19 witness: a 302 answered an invocation: the result carries the fixed
\* generic suggestion.
C19_Witness ==
    /\ Answered
    /\ callResp.status = 302
    /\ ~IsBinary(callResp.contentType)
    /\ result.isError
    /\ result.guidance = "generic"
    /\ Within(GenericSuggestion, result.text)
    /\ RendersRaw(result.text, callResp.body)

\* the names of the operation tools in a name list, in the order of the list
OperationNames(names) == SelectSeq(names, LAMBDA t : t.kind = "operation")

\* the operation tools of a name list stand in source order, before any
\* meta-tool
OperationsFirstInSourceOrder(names) ==
    /\ \A i, j \in DOMAIN names :
          (i < j /\ names[i].kind = "operation" /\ names[j].kind = "operation")
              => names[i].id < names[j].id
    /\ \A i, j \in DOMAIN names :
          (names[i].kind = "operation" /\ names[j].kind # "operation") => i < j

\* C17 (as stated): for every document and every option setting, dry-run
\* and an all-excluding tag filter included, the info meta-tool is
\* registered and the returned name list holds info after the names of the
\* registered operation tools, which stand in source order.
C17_InfoUnconditional ==
    rstep = "done"
        => /\ InfoTool \in serverTools
           /\ toolNames # << >>
           /\ toolNames[Len(toolNames)] = InfoTool
           /\ OperationsFirstInSourceOrder(toolNames)

\* C17 (amended): the info meta-tool is registered, and named last in the
\* returned list, exactly when the document has an info section and dry-run
\* is off, whatever the tag filter excludes; the operation tools are named
\* in source order before any meta-tool.
C17_InfoUnlessDryRunOrAbsent ==
    rstep = "done"
        => /\ OperationsFirstInSourceOrder(toolNames)
           /\ IF doc.HasInfo /\ ~DryRun(opts)
              THEN /\ InfoTool \in serverTools
                   /\ toolNames # << >>
                   /\ toolNames[Len(toolNames)] = InfoTool
                   /\ Cardinality({i \in DOMAIN toolNames : toolNames[i] = InfoTool}) = 1
              ELSE /\ InfoTool \notin serverTools
                   /\ InfoTool \notin Elems(toolNames)

\* C17 witness: the tag filter excluded every operation of a document with
\* an info section, dry-run off: info alone is registered and named.
C17_Witness ==
    /\ rstep = "done"
    /\ opCount = MaxOps
    /\ ~opts.IsNil
    /\ opts.TagFilter # << >>
    /\ ~doc.HasExternalDocs
    /\ toolNames = <<InfoTool>>
    /\ serverTools = {InfoTool}

\* the value the type and format of a declared schema give
DerivedFromType(s) ==
    CASE s.Type = "string" /\ s.Format = "email" -> StrVal(<<"user@example.com">>)
      [] s.Type = "string" /\ s.Format = "" -> StrVal(<<"example_string">>)
      [] s.Type = "integer" -> NumVal(123, 0)
      [] s.Type = "boolean" -> BoolVal(TRUE)
      [] OTHER -> exampleValue

\* C20: the example value of every property follows the order of
\* precedence: the first enum value when the enum is non-empty, otherwise
\* the declared example when present, otherwise the value derived from type
\* and format (string gives "example_string", email gives
\* "user@example.com", integer gives 123, boolean gives true); an absent
\* schema gives an absent value.
C20_ExampleValueRule ==
    estep = "done"
        => exampleValue =
              IF declared.IsNil THEN NoVal
              ELSE IF declared.Enum # << >> THEN declared.Enum[1]
              ELSE IF declared.HasExample THEN declared.Example
              ELSE DerivedFromType(declared)

\* the scheme names all alternatives of the operation's security name
NamedSchemes ==
    UNION {tool.op.Security[i] : i \in DOMAIN tool.op.Security}

\* some scheme named by the operation's security is satisfied under the
\* environment (whether a scheme is satisfied depends on the scheme and the
\* environment only)
SomeSchemeSatisfied ==
    \E secName \in NamedSchemes :
        fulfillSecurity(secName, NoRequest, SecuritySchemes, env).ok

\* the legacy fallback has something to set under the environment
FallbackHasCredentials ==
    \/ env.BEARER_TOKEN # << >>
    \/ env.BASIC_AUTH # << >>
    \/ (env.API_KEY # << >> /\ env.API_KEY_HEADER # << >>)

\* C21: the legacy fallback is applied if and only if no scheme named by
\* any security alternative of the operation was satisfied: once a scheme
\* has been satisfied the fallback sets no header, whatever becomes of the
\* schemes tried after it; when none was satisfied it sets its headers.
C21_FallbackIffNoneSatisfied ==
    RequestDispatched
        => /\ SomeSchemeSatisfied => sentReq.byFallback = {}
           /\ (~SomeSchemeSatisfied /\ FallbackHasCredentials)
                 => sentReq.byFallback # {}

\* C22: header and cookie parameters are added after authentication and
\* coexist with its credentials: when an apiKey scheme located in a cookie
\* was satisfied and the caller supplies a cookie parameter, the request
\* sent carries the credential cookie and the parameter cookie.
C22_CookiesCoexist ==
    (/\ RequestDispatched
     /\ tool.op.Security = <<{"CookieKeyAuth"}>>
     /\ env.API_KEY # << >>
     /\ N_track \in DOMAIN callArgs
     /\ \E i \in DOMAIN tool.op.Parameters :
           tool.op.Parameters[i].Name = N_track /\ tool.op.Parameters[i].In = "cookie")
        => /\ Within(<<"sid", "=">> \o env.API_KEY, HeaderGet(sentReq, H_Cookie))
           /\ Within(N_track \o <<"=">> \o DefaultFormat(callArgs[N_track]),
                     HeaderGet(sentReq, H_Cookie))

\* the argument object without the key k
Without(a, k) == [x \in DOMAIN a \ {k} |-> a[x]]

\* the invocation carries stream: true
Streamed == K_stream \in DOMAIN callArgs /\ callArgs[K_stream] = BoolVal(TRUE)

\* C23: the stream argument alters only the formatting of the response: an
\* invocation with stream: true ends with the kind of outcome that the
\* invocation with the same operation, options, other arguments and
\* transport response but no stream argument ends with; a mutating call
\* without __confirmed under confirmation gets the confirmation request in
\* both.
C23_StreamOnlyFormats ==
    (Answered /\ Streamed)
        => /\ Without(callArgs, K_stream) \in ArgSets(tool.schema)
           /\ result.kind = Respond(tool.op, tool.confirmDangerousActions,
                                    Without(callArgs, K_stream), callResp).kind

\* C24: only the marker __confirmed: true passes the confirmation gate: a
\* mutating call under confirmation whose arguments carry __confirmed with
\* another value gets the confirmation request on a 2xx response, as a call
\* without the key does.
C24_OnlyTrueConfirms ==
    (/\ GatedCall
     /\ Answered
     /\ Is2xx(callResp.status)
     /\ ~IsBinary(callResp.contentType)
     /\ ~Streamed
     /\ ~Confirmed)
        => /\ result.kind = "confirmation"
           /\ ~result.isError

\* C25: every invocation that returns a confirmation request has handed its
\* request to the transport, once, and was answered with a 2xx status
\* before; the result appears in the step that ends the wait for the
\* transport.
C25_ConfirmationAfterCall ==
    /\ result.kind = "confirmation"
          => /\ pc = "done"
             /\ sentReq.built
             /\ sends = 1
             /\ ~callResp.failed
             /\ Is2xx(callResp.status)
    /\ (pc = "sent") => (result.kind # "confirmation" /\ sentReq.built)

\* C25 witness: a DELETE under confirmation without the marker was sent,
\* answered 200 and ended with the confirmation request.
C25_Witness ==
    /\ GatedCall
    /\ tool.op.Method = "delete"
    /\ AnsweredPlain200
    /\ K_confirmed \notin DOMAIN callArgs
    /\ sends = 1
    /\ result.kind = "confirmation"

\* the contexts of all requests are done and their restoreEnv has run
AllRestored == \A i \in Requests : sessions[i].at = "restored"

\* C26: once the contexts of all requests are done, API_KEY, BEARER_TOKEN
\* and BASIC_AUTH hold the values they had before the first request began,
\* for every interleaving of the requests.
C26_EnvironmentRestored ==
    AllRestored
        => /\ env.API_KEY = origEnv.API_KEY
           /\ env.BEARER_TOKEN = origEnv.BEARER_TOKEN
           /\ env.BASIC_AUTH = origEnv.BASIC_AUTH

\* the locations the assembler supports
SupportedLocation(in) == in \in {"query", "path", "header", "cookie"}

\* a parameter in a supported location contributes the schema key k
SupportedKey(k) ==
    \E j \in DOMAIN asmParams :
        /\ Contributes(j)
        /\ SupportedLocation(asmParams[j].In)
        /\ escapeParameterName(asmParams[j].Name) = k

\* C27: a parameter whose location is not one of query, path, header,
\* cookie is skipped: it appears neither among the properties nor in the
\* required list of the assembled schema, and the other parameters are
\* assembled all the same.
C27_UnsupportedLocationSkipped ==
    astep = "assembled" =>
        /\ \A k \in DOMAIN inputSchema.Properties : k = RequestBodyKey \/ SupportedKey(k)
        /\ \A k \in Elems(inputSchema.Required) : k = RequestBodyKey \/ SupportedKey(k)
        /\ \A j \in DOMAIN asmParams :
              (Contributes(j) /\ SupportedLocation(asmParams[j].In))
                  => escapeParameterName(asmParams[j].Name) \in DOMAIN inputSchema.Properties

\* C28: description generation is deterministic: two calls with the same
\* operation and the same assembled schema return the same text, the order
\* of the optional parameters listed and the choice of optional properties
\* in the EXAMPLE line included.
C28_DescriptionDeterministic ==
    \A i, j \in DOMAIN descriptions : descriptions[i] = descriptions[j]

\* C29: the retry suggestion of a validation failure is built with the
\* Example-Value Rule of description and error-guidance generation: for
\* every property of the assembled schema the suggested argument set holds
\* generateExampleValue of that property.
C29_RetryUsesExampleRule ==
    (pc = "done" /\ result.kind = "validation_error")
        => \A k \in DOMAIN tool.schema.Properties :
              /\ k \in DOMAIN result.example
              /\ result.example[k] =
                    generateExampleValue(SchemaPropertyObject(tool.schema.Properties[k]))

\* C30: the base-URL candidate list bound to the registered tools is
\* non-empty for every document and environment (override set, servers
\* declared, servers declared with empty URLs, no servers), so that the
\* pick of a base URL per call, an index below the length of the list,
\* always has an element to select.
C30_BaseURLCandidatesNonEmpty ==
    rstep \in {"loop", "done"}
        => Len(baseURLs) > 0

====
